---- MODULE Spec2Model ----
(***************************************************************************)
(* Model of the gfop package: FoodCounts (src/gfop/foodcounts.py),         *)
(* FoodFlows (src/gfop/foodflows.py) and the helpers of src/gfop/utils.py  *)
(* and src/gfop/utils/utils.py.                                            *)
(*                                                                         *)
(* Tables (pandas DataFrames) are sequences of records, one record per     *)
(* row, in the row order pandas produces.  A text cell that the code       *)
(* splits ("a|b", "G1,G4") is a sequence of tokens in which the separator  *)
(* is a token of its own, so that str.split and str.contains are computed. *)
(* A missing value (NaN) is the string NaN.                                *)
(***************************************************************************)
EXTENDS Integers, Sequences, FiniteSets, TLC

VARIABLES
    pc,                 \* the statement of __init__ to run next, "done" or "raised"
    args,               \* the arguments of FoodCounts(...) or FoodFlows(...)
    attrs,              \* the attributes assigned on self so far
    gnps_network,       \* self.gnps_network
    sample_types,       \* self.sample_types
    sample_metadata,    \* self.sample_metadata
    file_level_counts,  \* self.file_level_counts
    counts,             \* self.counts
    flows,              \* self.flows of a FoodFlows object
    processes,          \* self.processes of a FoodFlows object
    err,                \* the exception raised by construction or by the last call
    call,               \* the last call made on the constructed object, with its arguments
    ret                 \* what that call returned

vars == <<pc, args, attrs, gnps_network, sample_types, sample_metadata,
          file_level_counts, counts, flows, processes, err, call, ret>>

---------------------------------------------------------------------------
(* Bounds of the model *)

\* the largest number of multi-group clusters of a network table
MaxClusters == 2
\* the largest value of the `levels` argument
MaxLevels == 2
\* the largest number of update_groups calls made on one object
MaxUpdates == 2
\* the greatest max_hierarchy_level of a FoodFlows(...) call
MaxHierarchyLevel == 3

---------------------------------------------------------------------------
(* Generic helpers *)

NaN == "NaN"

Range(s) == {s[i] : i \in 1..Len(s)}

RECURSIVE Flatten(_)
Flatten(ss) == IF ss = <<>> THEN <<>> ELSE Head(ss) \o Flatten(Tail(ss))

\* s without its repeated elements, first occurrences kept (drop_duplicates)
RECURSIVE DropDuplicates(_)
DropDuplicates(s) ==
    IF s = <<>> THEN <<>>
    ELSE LET init == DropDuplicates(SubSeq(s, 1, Len(s) - 1))
             last == s[Len(s)]
         IN  IF last \in Range(init) THEN init ELSE Append(init, last)

\* the tokens of `entries` joined by the separator token
RECURSIVE Join(_, _)
Join(entries, sep) ==
    IF Len(entries) <= 1 THEN entries
    ELSE <<Head(entries), sep>> \o Join(Tail(entries), sep)

\* str.split(sep): the entries between the separator tokens
StrSplit(str, sep) == SelectSeq(str, LAMBDA t : t # sep)

\* str.contains(sep)
StrContains(str, sep) == \E i \in 1..Len(str) : str[i] = sep

\* every name of the model in lexicographic order: the order in which
\* groupby, unstack and pivot_table sort their keys
SortedNames ==
    <<"apple", "blank", "dish", "fruit", "plant", "r1", "r1b", "r2", "r3",
      "s1", "s2", "stew", "u1", "water">>

Rank(n) == CHOOSE i \in 1..Len(SortedNames) : SortedNames[i] = n

RECURSIVE SortSet(_)
SortSet(S) ==
    IF S = {} THEN <<>>
    ELSE LET m == CHOOSE x \in S : \A y \in S : Rank(x) <= Rank(y)
         IN  <<m>> \o SortSet(S \ {m})

RECURSIVE SumCounts(_)
SumCounts(S) ==
    IF S = {} THEN 0
    ELSE LET r == CHOOSE x \in S : TRUE IN r.count + SumCounts(S \ {r})

---------------------------------------------------------------------------
(* The inputs *)

\* the six group columns of a network table
Groups == {"G1", "G2", "G3", "G4", "G5", "G6"}
GroupOrder == <<"G1", "G2", "G3", "G4", "G5", "G6">>

\* The clusters a network table is made of: the groups whose spectra the
\* cluster holds and the files those spectra come from.
RowTemplates ==
    << [pos |-> {"G1"},             files |-> <<"s1", "s2">>],
       [pos |-> {"G2"},             files |-> <<"s1">>],
       [pos |-> {"G4"},             files |-> <<"r1", "r2">>],
       [pos |-> {"G1", "G4"},       files |-> <<"s1", "r1", "r2">>],
       [pos |-> {"G1", "G4"},       files |-> <<"s1", "s2", "r1", "r1b", "r3">>],
       [pos |-> {"G1", "G4"},       files |-> <<"s2", "r2", "u1">>],
       [pos |-> {"G1", "G4", "G5"}, files |-> <<"s1", "r1">>],
       [pos |-> {"G1", "G2", "G4"}, files |-> <<"s1", "r3">>],
       [pos |-> {"G1", "G2"},       files |-> <<"s2", "r3">>],
       [pos |-> {"G1"},             files |-> <<"s1">>],
       [pos |-> {"G1", "G4"},       files |-> <<"s1", "r1", "r2", "r3">>] >>

\* One row of the network table: the group columns count the spectra of each
\* group, DefaultGroups lists the groups present, comma-joined
NetworkRow(k) ==
    LET t == RowTemplates[k] IN
    [ cluster_index     |-> k,
      UniqueFileSources |-> Join(t.files, "|"),
      DefaultGroups     |-> Join(SelectSeq(GroupOrder, LAMBDA c : c \in t.pos), ","),
      G                 |-> [c \in Groups |-> IF c \in t.pos THEN 2 ELSE 0] ]

RECURSIVE Ascending(_)
Ascending(S) ==
    IF S = {} THEN <<>>
    ELSE LET m == CHOOSE x \in S : \A y \in S : x <= y
         IN  <<m>> \o Ascending(S \ {m})

Reverse(s) == [i \in 1..Len(s) |-> s[Len(s) + 1 - i]]

\* The network tables: the single-group clusters of one of the PureChoices
\* and at most MaxClusters clusters shared by several groups, in ascending or
\* descending order of cluster index
PureChoices == {{}, {1}, {1, 3}, {1, 2, 3}, {1, 3, 10}}
MixedClusters == {k \in 1..Len(RowTemplates) : Cardinality(RowTemplates[k].pos) > 1}

Networks ==
    LET picks == {P \cup M : P \in PureChoices,
                             M \in {S \in SUBSET MixedClusters : Cardinality(S) <= MaxClusters}}
        table(order) == [i \in 1..Len(order) |-> NetworkRow(order[i])]
    IN  {table(Ascending(S)) : S \in picks} \cup {table(Reverse(Ascending(S))) : S \in picks}

\* the network file paths: one that exists, one that does not
ExistingPath == "network.tsv"
Paths == {ExistingPath, "invalid_path.tsv"}

SampleTypeTags == {"all", "simple", "complex", "other"}
SampleGroupLists == {<<"G1">>, <<"G1", "G2">>, <<"G9">>}
ReferenceGroupLists == {<<"G4">>, <<"G4", "G2">>, <<"G9", "G4">>}

ArgsSet ==
    [ gnps_network     : Paths,
      sample_types     : SampleTypeTags,
      sample_groups    : SampleGroupLists,
      reference_groups : ReferenceGroupLists,
      levels           : 1..MaxLevels ]

\* the arguments of FoodFlows(...)
GroupsIncludedLists == {<<"G1", "G4">>, <<"G4">>, <<"G1", "G2", "G4">>, <<"G9", "G1", "G8">>}

FlowArgsSet ==
    [ gnps_network        : Paths,
      sample_types        : SampleTypeTags,
      groups_included     : GroupsIncludedLists,
      max_hierarchy_level : 1..MaxHierarchyLevel ]

\* the bundled ontology (foodomics_multiproject_metadata.txt): one row per
\* reference file, its leaf name, its category at each of the six levels and
\* its simple/complex tag; a leaf name has one chain of categories
NumOntologyLevels == 6
Chain(top, rest) == [l \in 1..NumOntologyLevels |-> IF l = 1 THEN top ELSE rest]

_load_food_metadata ==
    << [filename |-> "r1",  sample_name |-> "apple", simple_complex |-> "simple",
        sample_type_group |-> Chain("plant", "fruit")],
       [filename |-> "r1b", sample_name |-> "apple", simple_complex |-> "simple",
        sample_type_group |-> Chain("plant", "fruit")],
       [filename |-> "r2",  sample_name |-> "blank", simple_complex |-> "simple",
        sample_type_group |-> Chain("water", "water")],
       [filename |-> "r3",  sample_name |-> "stew",  simple_complex |-> "complex",
        sample_type_group |-> Chain("plant", "dish")] >>

---------------------------------------------------------------------------
(* utils.py *)

\* _load_sample_types: the ontology rows of the requested tag, without the tag
_load_sample_types(gfop_metadata, simple_complex) ==
    LET kept == IF simple_complex # "all"
                THEN SelectSeq(gfop_metadata, LAMBDA o : o.simple_complex = simple_complex)
                ELSE gfop_metadata
    IN  [i \in 1..Len(kept) |->
            [ filename          |-> kept[i].filename,
              sample_name       |-> kept[i].sample_name,
              sample_type_group |-> kept[i].sample_type_group ]]

\* _validate_groups naming only one of the invalid labels
ValidateGroupsNamingOne(network, groups_included) ==
    LET valid_groups == {network[i].DefaultGroups : i \in 1..Len(network)}
        invalid_included_groups == {g \in Range(groups_included) : <<g>> \notin valid_groups}
    IN  IF Cardinality(invalid_included_groups) > 0
        THEN [type |-> "ValueError",
              names |-> {CHOOSE g \in invalid_included_groups : TRUE}]
        ELSE [type |-> "none", names |-> {}]

\* _validate_groups: the labels of groups_included that are no DefaultGroups
\* value of the network; a ValueError naming them when there are any
_validate_groups(network, groups_included) ==
    LET valid_groups == {network[i].DefaultGroups : i \in 1..Len(network)}
        invalid_included_groups == {g \in Range(groups_included) : <<g>> \notin valid_groups}
    IN  IF Cardinality(invalid_included_groups) > 0
        THEN [type |-> "ValueError", names |-> invalid_included_groups]
        ELSE [type |-> "none", names |-> {}]

---------------------------------------------------------------------------
(* foodcounts.py: the stages of FoodCounts.__init__ *)

\* the sample metadata without drop_duplicates
GetSampleMetadataKeepingDuplicates(network, sample_groups) ==
    LET df_selected == SelectSeq(network,
                           LAMBDA r : \E g \in Range(sample_groups) : r.DefaultGroups = <<g>>)
    IN  Flatten([i \in 1..Len(df_selected) |->
            LET files == StrSplit(df_selected[i].UniqueFileSources, "|")
            IN  [j \in 1..Len(files) |->
                    [group |-> df_selected[i].DefaultGroups[1], filename |-> files[j]]]])

\* _get_sample_metadata: the (group, filename) pairs of the rows whose
\* DefaultGroups holds no comma and is one of the sample groups
_get_sample_metadata(network, sample_groups) ==
    LET df_filtered == SelectSeq(network, LAMBDA r : ~StrContains(r.DefaultGroups, ","))
        df_selected == SelectSeq(df_filtered,
                           LAMBDA r : \E g \in Range(sample_groups) : r.DefaultGroups = <<g>>)
        exploded(r) == LET files == StrSplit(r.UniqueFileSources, "|")
                       IN  [i \in 1..Len(files) |->
                               [group |-> r.DefaultGroups[1], filename |-> files[i]]]
        filenames_df == Flatten([i \in 1..Len(df_selected) |-> exploded(df_selected[i])])
    IN  DropDuplicates(filenames_df)

\* the group filter asking every reference group column to be > 0
SelectClustersAllReferences(network, sample_groups, reference_groups) ==
    LET groups_excluded == Groups \ (Range(sample_groups) \cup Range(reference_groups))
    IN  SelectSeq(network, LAMBDA r :
            /\ \A g \in Range(sample_groups) : r.G[g] > 0
            /\ \A g \in Range(reference_groups) : r.G[g] > 0
            /\ \A g \in groups_excluded : r.G[g] = 0)

\* the group filter of _get_filename_level_food_counts: every sample group
\* column > 0, some reference group column > 0, every other group column = 0
SelectClusters(network, sample_groups, reference_groups) ==
    LET groups_excluded == Groups \ (Range(sample_groups) \cup Range(reference_groups))
    IN  SelectSeq(network, LAMBDA r :
            /\ \A g \in Range(sample_groups) : r.G[g] > 0
            /\ \E g \in Range(reference_groups) : r.G[g] > 0
            /\ \A g \in groups_excluded : r.G[g] = 0)

\* merged_df keeping the reference file of each pair as its filename
MergedPairsByReference(df_selected, sample_filenames, types) ==
    LET df_new == Flatten([i \in 1..Len(df_selected) |->
                      LET files == StrSplit(df_selected[i].UniqueFileSources, "|")
                      IN  [j \in 1..Len(files) |->
                              [filename |-> files[j],
                               cluster_index |-> df_selected[i].cluster_index]]])
        sample_name(f) == IF \E k \in 1..Len(types) : types[k].filename = f
                          THEN types[CHOOSE k \in 1..Len(types) : types[k].filename = f].sample_name
                          ELSE NaN
        is_sample(i) == df_new[i].filename \in sample_filenames
        is_food(j)   == ~is_sample(j) /\ sample_name(df_new[j].filename) # NaN
    IN  { [sample |-> p[1], food |-> p[2], filename |-> df_new[p[2]].filename,
           sample_name |-> sample_name(df_new[p[2]].filename)] :
          p \in { q \in (1..Len(df_new)) \X (1..Len(df_new)) :
                     /\ is_sample(q[1])
                     /\ is_food(q[2])
                     /\ df_new[q[1]].cluster_index = df_new[q[2]].cluster_index } }

\* merged_df with one row per (sample file, reference leaf name) pair of a
\* selected cluster
MergedPairsPerLeafName(df_selected, sample_filenames, types) ==
    LET df_new == Flatten([i \in 1..Len(df_selected) |->
                      LET files == StrSplit(df_selected[i].UniqueFileSources, "|")
                      IN  [j \in 1..Len(files) |->
                              [filename |-> files[j],
                               cluster_index |-> df_selected[i].cluster_index]]])
        sample_name(f) == IF \E k \in 1..Len(types) : types[k].filename = f
                          THEN types[CHOOSE k \in 1..Len(types) : types[k].filename = f].sample_name
                          ELSE NaN
        is_sample(i) == df_new[i].filename \in sample_filenames
        is_food(j)   == ~is_sample(j) /\ sample_name(df_new[j].filename) # NaN
    IN  { [sample |-> p[1], food |-> df_new[p[2]].cluster_index,
           filename |-> df_new[p[1]].filename,
           sample_name |-> sample_name(df_new[p[2]].filename)] :
          p \in { q \in (1..Len(df_new)) \X (1..Len(df_new)) :
                     /\ is_sample(q[1])
                     /\ is_food(q[2])
                     /\ df_new[q[1]].cluster_index = df_new[q[2]].cluster_index } }

\* The rows of merged_df: one per (sample file, mapped reference file) pair of
\* a selected cluster.  A file is a sample when the sample metadata lists it;
\* every other file is mapped to its leaf name through the ontology and
\* dropped when the ontology does not know it.
MergedPairs(df_selected, sample_filenames, types) ==
    LET df_new == Flatten([i \in 1..Len(df_selected) |->
                      LET files == StrSplit(df_selected[i].UniqueFileSources, "|")
                      IN  [j \in 1..Len(files) |->
                              [filename |-> files[j],
                               cluster_index |-> df_selected[i].cluster_index]]])
        sample_name(f) == IF \E k \in 1..Len(types) : types[k].filename = f
                          THEN types[CHOOSE k \in 1..Len(types) : types[k].filename = f].sample_name
                          ELSE NaN
        is_sample(i) == df_new[i].filename \in sample_filenames
        is_food(j)   == ~is_sample(j) /\ sample_name(df_new[j].filename) # NaN
    IN  { [sample |-> i, food |-> j, filename |-> df_new[i].filename,
           sample_name |-> sample_name(df_new[j].filename)] :
          <<i, j>> \in { p \in (1..Len(df_new)) \X (1..Len(df_new)) :
                           /\ is_sample(p[1])
                           /\ is_food(p[2])
                           /\ df_new[p[1]].cluster_index = df_new[p[2]].cluster_index } }

\* the level-0 table without its zero-filled rows
CountPairsWithoutZeros(merged_df) ==
    LET filenames  == SortSet({m.filename : m \in merged_df})
        food_types == SortSet({m.sample_name : m \in merged_df})
        size(f, n) == Cardinality({m \in merged_df : m.filename = f /\ m.sample_name = n})
    IN  SelectSeq(Flatten([c \in 1..Len(food_types) |->
                     [i \in 1..Len(filenames) |->
                         [filename  |-> filenames[i],
                          food_type |-> food_types[c],
                          count     |-> size(filenames[i], food_types[c]),
                          level     |-> 0]]]),
                  LAMBDA r : r.count > 0)

\* groupby(filename, sample_name).size().unstack(fill_value=0), melted: a row
\* for every file and every leaf name of merged_df, zero-filled, at level 0
CountPairs(merged_df) ==
    LET filenames  == SortSet({m.filename : m \in merged_df})
        food_types == SortSet({m.sample_name : m \in merged_df})
        size(f, n) == Cardinality({m \in merged_df : m.filename = f /\ m.sample_name = n})
    IN  Flatten([c \in 1..Len(food_types) |->
            [i \in 1..Len(filenames) |->
                [filename  |-> filenames[i],
                 food_type |-> food_types[c],
                 count     |-> size(filenames[i], food_types[c]),
                 level     |-> 0]]])

_get_filename_level_food_counts(network, sample_groups, reference_groups, metadata, types) ==
    LET df_selected == SelectClusters(network, sample_groups, reference_groups)
        sample_filenames == {metadata[i].filename : i \in 1..Len(metadata)}
    IN  CountPairs(MergedPairs(df_selected, sample_filenames, types))

\* the merge with the ontology that keeps a row for every ontology file of
\* the leaf name (no drop_duplicates)
MergeSampleTypesKeepingDuplicates(food_counts_file_level, types) ==
    { [filename  |-> food_counts_file_level[i].filename,
       food_type |-> food_counts_file_level[i].food_type,
       count     |-> food_counts_file_level[i].count,
       sample_type_group |-> types[k].sample_type_group,
       ontology_file |-> types[k].filename] :
      <<i, k>> \in { p \in (1..Len(food_counts_file_level)) \X (1..Len(types)) :
                       food_counts_file_level[p[1]].food_type = types[p[2]].sample_name } }

\* file_level_counts merged with the ontology on food_type = sample_name,
\* duplicate rows dropped: every count row with the chain of its leaf name
MergeSampleTypes(food_counts_file_level, types) ==
    { [filename  |-> food_counts_file_level[i].filename,
       food_type |-> food_counts_file_level[i].food_type,
       count     |-> food_counts_file_level[i].count,
       sample_type_group |-> types[k].sample_type_group] :
      <<i, k>> \in { p \in (1..Len(food_counts_file_level)) \X (1..Len(types)) :
                       food_counts_file_level[p[1]].food_type = types[p[2]].sample_name } }

\* the pivot counting the rows of a file and a category instead of summing
\* their counts
PivotLevelCountingRows(merged, level) ==
    [ filenames |-> {m.filename : m \in merged},
      columns   |-> {m.sample_type_group[level] : m \in merged},
      cell      |-> [f \in {m.filename : m \in merged},
                     c \in {m.sample_type_group[level] : m \in merged} |->
                        Cardinality({m \in merged : /\ m.filename = f
                                                     /\ m.sample_type_group[level] = c})] ]

\* groupby(filename, sample_type_group{level}).sum() pivoted to wide format:
\* a row per file, a column per category, absent combinations filled with 0
PivotLevel(merged, level) ==
    [ filenames |-> {m.filename : m \in merged},
      columns   |-> {m.sample_type_group[level] : m \in merged},
      cell      |-> [f \in {m.filename : m \in merged},
                     c \in {m.sample_type_group[level] : m \in merged} |->
                        SumCounts({m \in merged : /\ m.filename = f
                                                  /\ m.sample_type_group[level] = c})] ]

\* the comparison with water keeping the cells equal to the water count
CompareWithWaterKeepingEqual(wide) ==
    IF "water" \in wide.columns
    THEN [ filenames |-> wide.filenames,
           columns   |-> wide.columns \ {"water"},
           cell      |-> [f \in wide.filenames, c \in wide.columns \ {"water"} |->
                             IF wide.cell[f, c] >= wide.cell[f, "water"]
                             THEN wide.cell[f, c] ELSE 0] ]
    ELSE wide

\* the comparison with water taking the water count off the cells it keeps
CompareWithWaterSubtracting(wide) ==
    IF "water" \in wide.columns
    THEN [ filenames |-> wide.filenames,
           columns   |-> wide.columns \ {"water"},
           cell      |-> [f \in wide.filenames, c \in wide.columns \ {"water"} |->
                             IF wide.cell[f, c] > wide.cell[f, "water"]
                             THEN wide.cell[f, c] - wide.cell[f, "water"] ELSE 0] ]
    ELSE wide

\* the comparison with water: a cell is kept where it is greater than the
\* water count of its row and set to 0 elsewhere; the water column is dropped
CompareWithWater(wide) ==
    IF "water" \in wide.columns
    THEN [ filenames |-> wide.filenames,
           columns   |-> wide.columns \ {"water"},
           cell      |-> [f \in wide.filenames, c \in wide.columns \ {"water"} |->
                             IF wide.cell[f, c] > wide.cell[f, "water"]
                             THEN wide.cell[f, c] ELSE 0] ]
    ELSE wide

\* the wide table keeping its all-zero columns
DropZeroColumnsKeepingAll(wide) ==
    [ filenames    |-> wide.filenames,
      has_filename |-> wide.filenames # {},
      columns      |-> wide.columns,
      cell         |-> wide.cell ]

\* .loc[:, (wide != 0).any(axis=0)]: the columns with a nonzero value; the
\* filename column is one of the columns tested, and a table without rows
\* has no column with a nonzero value, so it loses its filename column too
DropZeroColumns(wide) ==
    [ filenames    |-> wide.filenames,
      has_filename |-> wide.filenames # {},
      columns      |-> {c \in wide.columns : \E f \in wide.filenames : wide.cell[f, c] # 0},
      cell         |-> wide.cell ]

\* melt(id_vars="filename") tagged with the level: the columns one after the
\* other, the files of each in index order
MeltLevel(wide, level) ==
    LET filenames  == SortSet(wide.filenames)
        food_types == SortSet(wide.columns)
    IN  Flatten([c \in 1..Len(food_types) |->
            [i \in 1..Len(filenames) |->
                [filename  |-> filenames[i],
                 food_type |-> food_types[c],
                 count     |-> wide.cell[filenames[i], food_types[c]],
                 level     |-> level]]])

\* the lookup giving the group of the first row of the file
MapGroupFirst(metadata, f) ==
    LET at == {i \in 1..Len(metadata) : metadata[i].filename = f}
    IN  IF at = {} THEN NaN
        ELSE metadata[CHOOSE i \in at : \A j \in at : i <= j].group

\* sample_metadata.set_index("filename")["group"].to_dict(), looked up: the
\* group of the last row of the file, NaN for a file without row
MapGroup(metadata, f) ==
    LET at == {i \in 1..Len(metadata) : metadata[i].filename = f}
    IN  IF at = {} THEN NaN
        ELSE metadata[CHOOSE i \in at : \A j \in at : j <= i].group

\* create_food_counts_all_levels: level 0 followed by the levels 1..levels,
\* each rolled up, compared with water, stripped of its all-zero columns and
\* melted, with the group of each file attached.  melt raises KeyError when
\* the filename column was dropped.
create_food_counts_all_levels(food_counts_file_level, types, metadata, levels) ==
    LET merged == MergeSampleTypes(food_counts_file_level, types)
        wide(level) == DropZeroColumns(CompareWithWater(PivotLevel(merged, level)))
        food_counts_all_levels ==
            food_counts_file_level
                \o Flatten([level \in 1..levels |-> MeltLevel(wide(level), level)])
    IN  IF \E level \in 1..levels : ~wide(level).has_filename
        THEN [err |-> "KeyError", rows |-> <<>>]
        ELSE [err |-> "none",
              rows |-> [i \in 1..Len(food_counts_all_levels) |->
                          [ filename  |-> food_counts_all_levels[i].filename,
                            food_type |-> food_counts_all_levels[i].food_type,
                            count     |-> food_counts_all_levels[i].count,
                            level     |-> food_counts_all_levels[i].level,
                            group     |-> MapGroup(metadata,
                                              food_counts_all_levels[i].filename) ]]]

\* filter_counts applying the level only when no food types are given
FilterCountsByFoodTypeOnly(food_counts, food_types, level) ==
    IF ~food_types.given
    THEN SelectSeq(food_counts, LAMBDA r : r.level = level)
    ELSE SelectSeq(food_counts, LAMBDA r : r.food_type \in Range(food_types.list))

\* filter_counts: the rows of counts at the level, of the food types when
\* food types are given (food_types.given is FALSE for None)
filter_counts(food_counts, food_types, level) ==
    IF ~food_types.given
    THEN SelectSeq(food_counts, LAMBDA r : r.level = level)
    ELSE SelectSeq(food_counts, LAMBDA r : /\ r.food_type \in Range(food_types.list)
                                           /\ r.level = level)

---------------------------------------------------------------------------
(* utils.py: the wide format and the proportions *)

\* A cell of a wide table is a fraction: pivot_table aggregates the counts of
\* a (filename, food_type) pair by their mean, and the proportions divide.
\* A fraction with the denominator 0 is inf.
Frac(num, den) == [num |-> num, den |-> den]
FracEq(a, b) == a.num * b.den = b.num * a.den
FracAdd(a, b) == Frac(a.num * b.den + b.num * a.den, a.den * b.den)
FracDiv(a, b) == Frac(a.num * b.den, a.den * b.num)

RECURSIVE FracSum(_, _)
FracSum(cell, columns) ==
    IF columns = <<>> THEN Frac(0, 1)
    ELSE FracAdd(cell[Head(columns)], FracSum(cell, Tail(columns)))

\* the optional level argument: None, or a level
NoLevel == [given |-> FALSE, value |-> 0]
Level(l) == [given |-> TRUE, value |-> l]

\* food_counts["level"].unique(): the levels in order of first appearance
LevelsInData(food_counts) ==
    DropDuplicates([i \in 1..Len(food_counts) |-> food_counts[i].level])

\* pivot_table(index="filename", columns="food_type", values="count",
\* fill_value=0) joined with the (filename, group) pairs of `grouped`: a row
\* per file and group of the file, files and columns in sorted order, a cell
\* the mean of the counts of its pair and 0 for a pair without rows
PivotWide(pivoted, grouped) ==
    LET filenames == SortSet({pivoted[i].filename : i \in 1..Len(pivoted)})
        columns   == SortSet({pivoted[i].food_type : i \in 1..Len(pivoted)})
        at(f, c)  == {i \in 1..Len(pivoted) : /\ pivoted[i].filename = f
                                              /\ pivoted[i].food_type = c}
        mean(f, c) == IF at(f, c) = {} THEN Frac(0, 1)
                      ELSE Frac(SumCounts({[count |-> pivoted[i].count, row |-> i] :
                                              i \in at(f, c)}),
                                Cardinality(at(f, c)))
        group_df  == DropDuplicates([i \in 1..Len(grouped) |->
                         [filename |-> grouped[i].filename, group |-> grouped[i].group]])
        groups(f) == LET of_f == SelectSeq(group_df, LAMBDA g : g.filename = f)
                     IN  IF of_f = <<>> THEN <<NaN>>
                         ELSE [j \in 1..Len(of_f) |-> of_f[j].group]
    IN  [ columns |-> columns,
          rows    |-> Flatten([k \in 1..Len(filenames) |->
                          [j \in 1..Len(groups(filenames[k])) |->
                              [ filename |-> filenames[k],
                                group    |-> groups(filenames[k])[j],
                                cell     |-> [c \in Range(columns) |->
                                                 mean(filenames[k], c)] ]]]) ]

NoWide == [columns |-> <<>>, rows |-> <<>>]

\* the wide table of utils/utils.py pivoting the whole table, not the rows
\* of the level
food_counts_to_wide_of_utils(food_counts, level) ==
    LET levels_in_data == LevelsInData(food_counts)
        inferred == IF level.given THEN level.value ELSE levels_in_data[1]
        filtered_food_counts == SelectSeq(food_counts, LAMBDA r : r.level = inferred)
    IN  IF ~level.given /\ Len(levels_in_data) > 1
        THEN [err |-> [type |-> "ValueError", names |-> {}, at |-> "multiple levels"],
              wide |-> NoWide]
        ELSE IF ~level.given /\ levels_in_data = <<>>
        THEN [err |-> [type |-> "IndexError", names |-> {}, at |-> "levels_in_data[0]"],
              wide |-> NoWide]
        ELSE IF filtered_food_counts = <<>>
        THEN [err |-> [type |-> "ValueError", names |-> {}, at |-> "no data"],
              wide |-> NoWide]
        ELSE [err |-> [type |-> "none", names |-> {}, at |-> "none"],
              wide |-> PivotWide(food_counts, food_counts)]

\* food_counts_to_wide inferring the level of the first row from a table of
\* several levels
FoodCountsToWideFirstLevel(food_counts, level) ==
    LET levels_in_data == LevelsInData(food_counts)
        inferred == IF level.given THEN level.value ELSE levels_in_data[1]
        filtered_food_counts == SelectSeq(food_counts, LAMBDA r : r.level = inferred)
    IN  IF ~level.given /\ levels_in_data = <<>>
        THEN [err |-> [type |-> "IndexError", names |-> {}, at |-> "levels_in_data[0]"],
              wide |-> NoWide]
        ELSE IF filtered_food_counts = <<>>
        THEN [err |-> [type |-> "ValueError", names |-> {}, at |-> "no data"],
              wide |-> NoWide]
        ELSE [err |-> [type |-> "none", names |-> {}, at |-> "none"],
              wide |-> PivotWide(filtered_food_counts, filtered_food_counts)]

\* food_counts_to_wide returning an empty table when no row is at the level
FoodCountsToWideOrEmpty(food_counts, level) ==
    LET levels_in_data == LevelsInData(food_counts)
        inferred == IF level.given THEN level.value ELSE levels_in_data[1]
        filtered_food_counts == SelectSeq(food_counts, LAMBDA r : r.level = inferred)
    IN  IF ~level.given /\ Len(levels_in_data) > 1
        THEN [err |-> [type |-> "ValueError", names |-> {}, at |-> "multiple levels"],
              wide |-> NoWide]
        ELSE IF (~level.given /\ levels_in_data = <<>>) \/ filtered_food_counts = <<>>
        THEN [err |-> [type |-> "none", names |-> {}, at |-> "none"], wide |-> NoWide]
        ELSE [err |-> [type |-> "none", names |-> {}, at |-> "none"],
              wide |-> PivotWide(filtered_food_counts, filtered_food_counts)]

\* food_counts_to_wide of utils.py: ValueError for several levels when no
\* level is given, IndexError when the level is to be inferred from no row,
\* ValueError when no row is at the level, else the rows of the level pivoted
food_counts_to_wide(food_counts, level) ==
    LET levels_in_data == LevelsInData(food_counts)
        inferred == IF level.given THEN level.value ELSE levels_in_data[1]
        filtered_food_counts == SelectSeq(food_counts, LAMBDA r : r.level = inferred)
    IN  IF ~level.given /\ Len(levels_in_data) > 1
        THEN [err |-> [type |-> "ValueError", names |-> {}, at |-> "multiple levels"],
              wide |-> NoWide]
        ELSE IF ~level.given /\ levels_in_data = <<>>
        THEN [err |-> [type |-> "IndexError", names |-> {}, at |-> "levels_in_data[0]"],
              wide |-> NoWide]
        ELSE IF filtered_food_counts = <<>>
        THEN [err |-> [type |-> "ValueError", names |-> {}, at |-> "no data"],
              wide |-> NoWide]
        ELSE [err |-> [type |-> "none", names |-> {}, at |-> "none"],
              wide |-> PivotWide(filtered_food_counts, filtered_food_counts)]

\* the division by the row totals without fillna(0)
ProportionsWithoutFill(df_wide) ==
    [ columns |-> df_wide.columns,
      rows    |-> [k \in 1..Len(df_wide.rows) |->
                      LET row   == df_wide.rows[k]
                          total == FracSum(row.cell, df_wide.columns)
                      IN  [ filename |-> row.filename,
                            group    |-> row.group,
                            cell     |-> [c \in Range(df_wide.columns) |->
                                            FracDiv(row.cell[c], total)] ]] ]

\* div(sum(axis=1), axis=0).fillna(0) over the food type columns: each cell
\* divided by the total of its row, 0 where the division gives NaN (0 / 0)
Proportions(df_wide) ==
    [ columns |-> df_wide.columns,
      rows    |-> [k \in 1..Len(df_wide.rows) |->
                      LET row   == df_wide.rows[k]
                          total == FracSum(row.cell, df_wide.columns)
                      IN  [ filename |-> row.filename,
                            group    |-> row.group,
                            cell     |-> [c \in Range(df_wide.columns) |->
                                            IF row.cell[c].num = 0 /\ total.num = 0
                                            THEN Frac(0, 1)
                                            ELSE FracDiv(row.cell[c], total)] ]] ]

\* calculate_proportions: the level inferred as in food_counts_to_wide, the
\* wide table of the level, its food type cells divided by the row totals
calculate_proportions(food_counts, level) ==
    LET levels_in_data == LevelsInData(food_counts)
        inferred == IF level.given THEN level.value ELSE levels_in_data[1]
        df_wide  == food_counts_to_wide(food_counts, Level(inferred))
    IN  IF ~level.given /\ Len(levels_in_data) > 1
        THEN [err |-> [type |-> "ValueError", names |-> {}, at |-> "multiple levels"],
              wide |-> NoWide]
        ELSE IF ~level.given /\ levels_in_data = <<>>
        THEN [err |-> [type |-> "IndexError", names |-> {}, at |-> "levels_in_data[0]"],
              wide |-> NoWide]
        ELSE IF df_wide.err.type # "none"
        THEN df_wide
        ELSE [err |-> df_wide.err, wide |-> Proportions(df_wide.wide)]

---------------------------------------------------------------------------
(* Metadata files and the group override *)

\* The metadata files a caller may pass: the extension of the path, the
\* delimiter the file is written with, its columns and its rows
MetadataFiles ==
    << [ext |-> ".csv", delimiter |-> ",", columns |-> {"filename", "group"},
        rows |-> << [filename |-> "s1", group |-> "A"] >>],
       [ext |-> ".tsv", delimiter |-> "\t", columns |-> {"filename", "diet"},
        rows |-> << [filename |-> "s1", diet |-> "A"],
                    [filename |-> "zz", diet |-> "B"],
                    [filename |-> "s1", diet |-> "B"] >>],
       [ext |-> ".txt", delimiter |-> "\t", columns |-> {"filename", "group", "diet"},
        rows |-> << [filename |-> "s2", group |-> "B", diet |-> NaN],
                    [filename |-> "s1", group |-> "A", diet |-> "B"],
                    [filename |-> "s1", group |-> NaN, diet |-> "C"] >>],
       [ext |-> ".xlsx", delimiter |-> ",", columns |-> {"filename", "group"},
        rows |-> << [filename |-> "s1", group |-> "A"] >>],
       [ext |-> ".csv", delimiter |-> ",", columns |-> {"group", "diet"},
        rows |-> << [group |-> "A", diet |-> "B"] >>],
       [ext |-> ".CSV", delimiter |-> ",", columns |-> {"filename", "group"},
        rows |-> << [filename |-> "s2", group |-> "B"] >>],
       [ext |-> ".txt", delimiter |-> ",", columns |-> {"filename", "group"},
        rows |-> << [filename |-> "s1", group |-> "A"] >>] >>

MergeColumns == {"group", "diet"}

\* str.lower() of an extension
Lower(ext) == IF ext = ".CSV" THEN ".csv" ELSE ext

\* pd.read_csv(file, sep): the table of the file when sep is its delimiter;
\* otherwise every line is one cell, under one column named by the header line
read_csv(file, sep) ==
    IF file.delimiter = sep
    THEN [columns |-> file.columns, rows |-> file.rows]
    ELSE [columns |-> {"<header line>"},
          rows    |-> [i \in 1..Len(file.rows) |-> [line |-> i]]]

\* metadata.set_index("filename")[merge_column].to_dict(), looked up: the
\* value of the last row of the file, NaN for a file without row
MapValue(metadata, merge_column, f) ==
    LET at == {i \in 1..Len(metadata.rows) : metadata.rows[i].filename = f}
    IN  IF at = {} THEN NaN
        ELSE metadata.rows[CHOOSE i \in at : \A j \in at : j <= i][merge_column]

\* the override made as a left merge: a row per row of the metadata that
\* names the file
MapAndFillPerMatch(table, metadata, merge_column) ==
    Flatten([i \in 1..Len(table) |->
        LET at == Ascending({k \in 1..Len(metadata.rows) :
                                metadata.rows[k].filename = table[i].filename})
        IN  IF at = <<>> THEN <<table[i]>>
            ELSE [j \in 1..Len(at) |->
                     IF metadata.rows[at[j]][merge_column] # NaN
                     THEN [table[i] EXCEPT !.group = metadata.rows[at[j]][merge_column]]
                     ELSE table[i]]])

\* column.map(filename_to_group).fillna(column)
MapAndFill(table, metadata, merge_column) ==
    [i \in 1..Len(table) |->
        LET new == MapValue(metadata, merge_column, table[i].filename)
        IN  IF new # NaN THEN [table[i] EXCEPT !.group = new] ELSE table[i]]

\* update_groups reading a file of any other extension as a CSV file
UpdateGroupsAnyExtension(food_counts, metadata_of_samples, metadata_file, merge_column) ==
    LET file_extension == Lower(metadata_file.ext)
        metadata == IF file_extension \in {".tsv", ".txt"} THEN read_csv(metadata_file, "\t")
                    ELSE read_csv(metadata_file, ",")
    IN  IF ~({"filename", merge_column} \subseteq metadata.columns)
        THEN [err |-> [type |-> "ValueError", names |-> {"filename", merge_column},
                       at |-> "update_groups"],
              counts |-> food_counts, sample_metadata |-> metadata_of_samples]
        ELSE [err |-> [type |-> "none", names |-> {}, at |-> "update_groups"],
              counts |-> MapAndFill(food_counts, metadata, merge_column),
              sample_metadata |-> MapAndFill(metadata_of_samples, metadata, merge_column)]

\* update_groups leaving the sample metadata as it was
UpdateGroupsCountsOnly(food_counts, metadata_of_samples, metadata_file, merge_column) ==
    LET file_extension == Lower(metadata_file.ext)
        unchanged(e) == [err |-> e, counts |-> food_counts,
                         sample_metadata |-> metadata_of_samples]
        metadata == IF file_extension = ".csv" THEN read_csv(metadata_file, ",")
                    ELSE read_csv(metadata_file, "\t")
    IN  IF file_extension \notin {".csv", ".tsv", ".txt"}
        THEN unchanged([type |-> "ValueError", names |-> {}, at |-> "update_groups"])
        ELSE IF ~({"filename", merge_column} \subseteq metadata.columns)
        THEN unchanged([type |-> "ValueError", names |-> {"filename", merge_column},
                        at |-> "update_groups"])
        ELSE [err |-> [type |-> "none", names |-> {}, at |-> "update_groups"],
              counts |-> MapAndFill(food_counts, metadata, merge_column),
              sample_metadata |-> metadata_of_samples]

\* FoodCounts.update_groups: the error raised, if any, and counts and
\* sample_metadata after the call
update_groups(food_counts, metadata_of_samples, metadata_file, merge_column) ==
    LET file_extension == Lower(metadata_file.ext)
        unchanged(e) == [err |-> e, counts |-> food_counts,
                         sample_metadata |-> metadata_of_samples]
        metadata == IF file_extension = ".csv" THEN read_csv(metadata_file, ",")
                    ELSE read_csv(metadata_file, "\t")
    IN  IF file_extension \notin {".csv", ".tsv", ".txt"}
        THEN unchanged([type |-> "ValueError", names |-> {}, at |-> "update_groups"])
        ELSE IF ~({"filename", merge_column} \subseteq metadata.columns)
        THEN unchanged([type |-> "ValueError", names |-> {"filename", merge_column},
                        at |-> "update_groups"])
        ELSE [err |-> [type |-> "none", names |-> {}, at |-> "update_groups"],
              counts |-> MapAndFill(food_counts, metadata, merge_column),
              sample_metadata |-> MapAndFill(metadata_of_samples, metadata, merge_column)]

\* the columns of a food counts table
CountsColumns == {"filename", "food_type", "count", "level", "group"}

\* utils/utils.py update_group_with_metadata_column: the error raised, if
\* any, and the table returned.  The left merge yields a row per matching
\* metadata row, or one row with a missing value.  A merge column that is not
\* a column of food_counts fills the group; the merge column `group` is a
\* column of food_counts, so the metadata's column is renamed group_updated,
\* the group is filled from itself and then dropped as the helper column.
update_group_with_metadata_column(food_counts, metadata_file, merge_column) ==
    LET file_extension == metadata_file.ext
        metadata == IF file_extension = ".csv" THEN read_csv(metadata_file, ",")
                    ELSE read_csv(metadata_file, "\t")
        matches(f) == Ascending({k \in 1..Len(metadata.rows) : metadata.rows[k].filename = f})
        merged(left) ==
            IF matches(left.filename) = <<>>
            THEN << [left |-> left, right |-> NaN] >>
            ELSE [j \in 1..Len(matches(left.filename)) |->
                     [left |-> left,
                      right |-> metadata.rows[matches(left.filename)[j]][merge_column]]]
        updated_food_counts == Flatten([i \in 1..Len(food_counts) |-> merged(food_counts[i])])
        replaced(m) ==
            IF merge_column \in CountsColumns
            THEN [ filename  |-> m.left.filename,
                   food_type |-> m.left.food_type,
                   count     |-> m.left.count,
                   level     |-> m.left.level,
                   group_updated |-> m.right ]
            ELSE [m.left EXCEPT !.group = IF m.right # NaN THEN m.right ELSE m.left.group]
    IN  IF file_extension \notin {".csv", ".tsv"}
        THEN [err |-> [type |-> "ValueError", names |-> {},
                       at |-> "update_group_with_metadata_column"],
              rows |-> <<>>]
        ELSE IF ~({"filename", merge_column} \subseteq metadata.columns)
        THEN [err |-> [type |-> "ValueError", names |-> {"filename", merge_column},
                       at |-> "update_group_with_metadata_column"],
              rows |-> <<>>]
        ELSE [err |-> [type |-> "none", names |-> {},
                       at |-> "update_group_with_metadata_column"],
              rows |-> [i \in 1..Len(updated_food_counts) |->
                           replaced(updated_food_counts[i])]]

---------------------------------------------------------------------------
(* foodflows.py: FoodFlows *)

\* FoodFlows._load_food_metadata: the same bundled ontology file
FoodFlows_load_food_metadata == _load_food_metadata

\* FoodFlows._load_sample_types: the ontology rows whose simple_complex tag is
\* the one asked for, every row for "all", indexed by filename
FoodFlows_load_sample_types(simple_complex) ==
    LET gfop_metadata == FoodFlows_load_food_metadata
        kept == IF simple_complex # "all"
                THEN SelectSeq(gfop_metadata, LAMBDA r : r.simple_complex = simple_complex)
                ELSE gfop_metadata
    IN  [i \in 1..Len(kept) |->
            [ filename          |-> kept[i].filename,
              sample_name       |-> kept[i].sample_name,
              sample_type_group |-> kept[i].sample_type_group ]]

\* FoodFlows._validate_groups: a ValueError naming the labels of
\* groups_included that are no DefaultGroups value of the network
FoodFlows_validate_groups(network, groups_included) ==
    LET valid_groups == {network[i].DefaultGroups : i \in 1..Len(network)}
        invalid_included_groups == {g \in Range(groups_included) : <<g>> \notin valid_groups}
    IN  IF invalid_included_groups # {}
        THEN [type |-> "ValueError", names |-> invalid_included_groups]
        ELSE [type |-> "none", names |-> {}]

\* the group filter asking some included group column to be > 0
SelectFlowClustersAnyIncluded(network, groups_included) ==
    LET groups_excluded == Groups \ Range(groups_included)
    IN  SelectSeq(network, LAMBDA r :
            /\ \E g \in Range(groups_included) : r.G[g] > 0
            /\ \A g \in groups_excluded : r.G[g] = 0)

\* the group filter of generate_foodflows: every included group column > 0
\* and every other group column = 0
SelectFlowClusters(network, groups_included) ==
    LET groups_excluded == Groups \ Range(groups_included)
    IN  SelectSeq(network, LAMBDA r :
            /\ \A g \in Range(groups_included) : r.G[g] > 0
            /\ \A g \in groups_excluded : r.G[g] = 0)

\* sample_types.reindex(filenames).dropna(): for every file entry of the
\* selected clusters that the ontology knows, its categories at the levels
\* 1..max_hierarchy_level; entries with a missing category are dropped
MatchSampleTypes(df_selected, types, max_hierarchy_level) ==
    LET filenames == Flatten([i \in 1..Len(df_selected) |->
                         StrSplit(df_selected[i].UniqueFileSources, "|")])
        known(f) == \E k \in 1..Len(types) : types[k].filename = f
        chain(f) == types[CHOOSE k \in 1..Len(types) : types[k].filename = f].sample_type_group
        matched == SelectSeq(filenames, LAMBDA f :
                       /\ known(f)
                       /\ \A l \in 1..max_hierarchy_level : chain(f)[l] # NaN)
    IN  [i \in 1..Len(matched) |-> chain(matched[i])]

\* the comparison with the water count made on the categories of level 1
DiscardBelowWaterAtLevelOne(sample_types_selected, max_hierarchy_level) ==
    LET rows == 1..Len(sample_types_selected)
        water_count == Cardinality({i \in rows : sample_types_selected[i][1] = "water"})
        sample_counts(c) == Cardinality({i \in rows : sample_types_selected[i][1] = c})
    IN  SelectSeq(sample_types_selected, LAMBDA r : sample_counts(r[1]) > water_count)

\* the rows whose category at the finest level occurs more often than water
\* occurs at level 1
DiscardBelowWater(sample_types_selected, max_hierarchy_level) ==
    LET rows == 1..Len(sample_types_selected)
        water_count == Cardinality({i \in rows : sample_types_selected[i][1] = "water"})
        sample_counts(c) ==
            Cardinality({i \in rows : sample_types_selected[i][max_hierarchy_level] = c})
    IN  SelectSeq(sample_types_selected,
                  LAMBDA r : sample_counts(r[max_hierarchy_level]) > water_count)

\* pairs of names in the order groupby sorts its keys
RECURSIVE SortPairs(_)
SortPairs(S) ==
    IF S = {} THEN <<>>
    ELSE LET m == CHOOSE x \in S : \A y \in S :
                      \/ Rank(x[1]) < Rank(y[1])
                      \/ Rank(x[1]) = Rank(y[1]) /\ Rank(x[2]) <= Rank(y[2])
         IN  <<m>> \o SortPairs(S \ {m})

\* the flows between the levels i and i + 1 with every edge valued by the
\* rows of its source category
FlowBetweenValuedBySource(sample_types_selected, i) ==
    LET rows  == 1..Len(sample_types_selected)
        pairs == SortPairs({<<sample_types_selected[r][i], sample_types_selected[r][i + 1]>> :
                               r \in rows})
    IN  [k \in 1..Len(pairs) |->
            [ source |-> <<pairs[k][1], i>>,
              target |-> <<pairs[k][2], i + 1>>,
              value  |-> Cardinality({r \in rows : sample_types_selected[r][i] = pairs[k][1]}),
              type   |-> <<pairs[k][2], i + 1>> ]]

\* the flows between the levels i and i + 1: an edge per pair of categories
\* some row holds, valued by the number of such rows.  The identifier
\* name + "_" + level is the pair of the name and the level.
FlowBetween(sample_types_selected, i) ==
    LET rows  == 1..Len(sample_types_selected)
        pairs == SortPairs({<<sample_types_selected[r][i], sample_types_selected[r][i + 1]>> :
                               r \in rows})
    IN  [k \in 1..Len(pairs) |->
            [ source |-> <<pairs[k][1], i>>,
              target |-> <<pairs[k][2], i + 1>>,
              value  |-> Cardinality({r \in rows :
                             /\ sample_types_selected[r][i] = pairs[k][1]
                             /\ sample_types_selected[r][i + 1] = pairs[k][2]}),
              type   |-> <<pairs[k][2], i + 1>> ]]

\* the sources and the targets of a flow, all with the level of the sources
ProcessOfSourceLevel(flow, i) ==
    [k \in 1..Len(flow) |-> [id |-> flow[k].source, level |-> i]]
        \o [k \in 1..Len(flow) |-> [id |-> flow[k].target, level |-> i]]

\* the sources, then the targets, of a flow with their levels
ProcessOf(flow, i) ==
    [k \in 1..Len(flow) |-> [id |-> flow[k].source, level |-> i]]
        \o [k \in 1..Len(flow) |-> [id |-> flow[k].target, level |-> i + 1]]

\* FoodFlows.generate_foodflows: the flows and the processes; pd.concat
\* raises a ValueError when there is no pair of levels to concatenate
generate_foodflows(network, types, groups_included, max_hierarchy_level) ==
    LET df_selected == SelectFlowClusters(network, groups_included)
        sample_types_selected ==
            DiscardBelowWater(MatchSampleTypes(df_selected, types, max_hierarchy_level),
                              max_hierarchy_level)
        pairs_of_levels == 1..(max_hierarchy_level - 1)
        flow(i) == FlowBetween(sample_types_selected, i)
    IN  IF pairs_of_levels = {}
        THEN [err |-> "ValueError", flows |-> <<>>, processes |-> <<>>]
        ELSE [err |-> "none",
              flows |-> Flatten([i \in pairs_of_levels |-> flow(i)]),
              processes |->
                  DropDuplicates(Flatten([i \in pairs_of_levels |-> ProcessOf(flow(i), i)]))]

---------------------------------------------------------------------------
(* FoodCounts.__init__, statement by statement *)

NoError == [type |-> "none", names |-> {}, at |-> "none"]
NoFoodTypes == [given |-> FALSE, list |-> <<>>]
NoCall == [op |-> "none", updates |-> 0, food_types |-> NoFoodTypes, level |-> 0,
           metadata_file |-> 0, merge_column |-> "none"]

\* a FoodCounts(...) or a FoodFlows(...) call about to run
Init ==
    /\ \/ pc = "read_network" /\ args \in ArgsSet
       \/ pc = "FoodFlows.read_network" /\ args \in FlowArgsSet
    /\ attrs = {}
    /\ gnps_network = <<>>
    /\ sample_types = <<>>
    /\ sample_metadata = <<>>
    /\ file_level_counts = <<>>
    /\ counts = <<>>
    /\ flows = <<>>
    /\ processes = <<>>
    /\ err = NoError
    /\ call = NoCall
    /\ ret = <<>>

\* pd.read_csv(gnps_network, sep="\t"): FileNotFoundError for a missing file
ReadNetwork ==
    /\ pc = "read_network"
    /\ IF args.gnps_network = ExistingPath
       THEN /\ gnps_network' \in Networks
            /\ attrs' = attrs \cup {"gnps_network"}
            /\ pc' = "load_sample_types"
            /\ err' = err
       ELSE /\ pc' = "raised"
            /\ err' = [type |-> "FileNotFoundError", names |-> {}, at |-> pc]
            /\ UNCHANGED <<gnps_network, attrs>>
    /\ UNCHANGED <<args, sample_types, sample_metadata, file_level_counts, counts, call, ret,
                   flows, processes>>

LoadSampleTypes ==
    /\ pc = "load_sample_types"
    /\ sample_types' = _load_sample_types(_load_food_metadata, args.sample_types)
    /\ attrs' = attrs \cup {"food_metadata", "sample_types", "sample_groups",
                            "reference_groups", "levels"}
    /\ pc' = "validate_sample_groups"
    /\ UNCHANGED <<args, gnps_network, sample_metadata, file_level_counts, counts,
                   err, call, ret,
                   flows, processes>>

\* a _validate_groups call of __init__: the ValueError ends the construction
Validate(groups_included, next) ==
    LET e == _validate_groups(gnps_network, groups_included)
    IN  /\ IF e.type # "none"
           THEN /\ pc' = "raised"
                /\ err' = [type |-> e.type, names |-> e.names, at |-> pc]
           ELSE /\ pc' = next
                /\ err' = err
        /\ UNCHANGED <<args, attrs, gnps_network, sample_types, sample_metadata,
                       file_level_counts, counts, call, ret,
                   flows, processes>>

ValidateSampleGroups ==
    /\ pc = "validate_sample_groups"
    /\ Validate(args.sample_groups, "validate_reference_groups")

ValidateReferenceGroups ==
    /\ pc = "validate_reference_groups"
    /\ Validate(args.reference_groups, "get_sample_metadata")

GetSampleMetadata ==
    /\ pc = "get_sample_metadata"
    /\ sample_metadata' = _get_sample_metadata(gnps_network, args.sample_groups)
    /\ attrs' = attrs \cup {"sample_metadata"}
    /\ pc' = "get_filename_level_food_counts"
    /\ UNCHANGED <<args, gnps_network, sample_types, file_level_counts, counts,
                   err, call, ret,
                   flows, processes>>

GetFilenameLevelFoodCounts ==
    /\ pc = "get_filename_level_food_counts"
    /\ file_level_counts' =
           _get_filename_level_food_counts(gnps_network, args.sample_groups,
               args.reference_groups, sample_metadata, sample_types)
    /\ attrs' = attrs \cup {"file_level_counts"}
    /\ pc' = "create_food_counts_all_levels"
    /\ UNCHANGED <<args, gnps_network, sample_types, sample_metadata, counts,
                   err, call, ret,
                   flows, processes>>

CreateFoodCountsAllLevels ==
    /\ pc = "create_food_counts_all_levels"
    /\ LET made == create_food_counts_all_levels(file_level_counts, sample_types,
                       sample_metadata, args.levels)
       IN  IF made.err # "none"
           THEN /\ pc' = "raised"
                /\ err' = [type |-> made.err, names |-> {"filename"}, at |-> pc]
                /\ UNCHANGED <<counts, attrs>>
           ELSE /\ counts' = made.rows
                /\ attrs' = attrs \cup {"counts"}
                /\ pc' = "done"
                /\ err' = err
    /\ UNCHANGED <<args, gnps_network, sample_types, sample_metadata,
                   file_level_counts, call, ret,
                   flows, processes>>

---------------------------------------------------------------------------
(* FoodFlows.__init__, statement by statement *)

FlowsReadNetwork ==
    /\ pc = "FoodFlows.read_network"
    /\ IF args.gnps_network = ExistingPath
       THEN /\ gnps_network' \in Networks
            /\ attrs' = attrs \cup {"gnps_network"}
            /\ pc' = "FoodFlows.load_sample_types"
            /\ err' = err
       ELSE /\ pc' = "FoodFlows.raised"
            /\ err' = [type |-> "FileNotFoundError", names |-> {}, at |-> pc]
            /\ UNCHANGED <<gnps_network, attrs>>
    /\ UNCHANGED <<args, sample_types, sample_metadata, file_level_counts, counts,
                   flows, processes, call, ret>>

FlowsLoadSampleTypes ==
    /\ pc = "FoodFlows.load_sample_types"
    /\ sample_types' = FoodFlows_load_sample_types(args.sample_types)
    /\ attrs' = attrs \cup {"sample_types", "groups_included", "max_hierarchy_level",
                            "food_metadata"}
    /\ pc' = "FoodFlows.validate_groups"
    /\ UNCHANGED <<args, gnps_network, sample_metadata, file_level_counts, counts,
                   flows, processes, err, call, ret>>

FlowsValidateGroups ==
    /\ pc = "FoodFlows.validate_groups"
    /\ LET e == FoodFlows_validate_groups(gnps_network, args.groups_included)
       IN  IF e.type # "none"
           THEN /\ pc' = "FoodFlows.raised"
                /\ err' = [type |-> e.type, names |-> e.names, at |-> pc]
           ELSE /\ pc' = "FoodFlows.generate_foodflows"
                /\ err' = err
    /\ UNCHANGED <<args, attrs, gnps_network, sample_types, sample_metadata,
                   file_level_counts, counts, flows, processes, call, ret>>

GenerateFoodflows ==
    /\ pc = "FoodFlows.generate_foodflows"
    /\ LET made == generate_foodflows(gnps_network, sample_types, args.groups_included,
                                      args.max_hierarchy_level)
       IN  IF made.err # "none"
           THEN /\ pc' = "FoodFlows.raised"
                /\ err' = [type |-> made.err, names |-> {}, at |-> pc]
                /\ UNCHANGED <<flows, processes, attrs>>
           ELSE /\ flows' = made.flows
                /\ processes' = made.processes
                /\ attrs' = attrs \cup {"flows", "processes"}
                /\ pc' = "FoodFlows.done"
                /\ err' = err
    /\ UNCHANGED <<args, gnps_network, sample_types, sample_metadata,
                   file_level_counts, counts, call, ret>>

---------------------------------------------------------------------------
(* Calls on the constructed object *)

FoodTypeLists ==
    { NoFoodTypes,
      [given |-> TRUE, list |-> <<"fruit", "plant">>],
      [given |-> TRUE, list |-> <<"non_existent_food">>] }

FilterCounts ==
    /\ pc = "done"
    /\ \E food_types \in FoodTypeLists, level \in 0..MaxLevels :
          /\ ret' = filter_counts(counts, food_types, level)
          /\ call' = [NoCall EXCEPT !.op = "filter_counts", !.updates = call.updates,
                                    !.food_types = food_types, !.level = level]
    /\ err' = NoError
    /\ UNCHANGED <<pc, args, attrs, gnps_network, sample_types, sample_metadata,
                   file_level_counts, counts,
                   flows, processes>>

UpdateGroups ==
    /\ pc = "done"
    /\ call.updates < MaxUpdates
    /\ \E k \in 1..Len(MetadataFiles), merge_column \in MergeColumns :
          LET done == update_groups(counts, sample_metadata, MetadataFiles[k], merge_column)
          IN  /\ counts' = done.counts
              /\ sample_metadata' = done.sample_metadata
              /\ err' = done.err
              /\ call' = [NoCall EXCEPT !.op = "update_groups",
                                        !.updates = call.updates + 1,
                                        !.metadata_file = k,
                                        !.merge_column = merge_column]
    /\ ret' = <<>>
    /\ UNCHANGED <<pc, args, attrs, gnps_network, sample_types, file_level_counts,
                   flows, processes>>

UpdateGroupWithMetadataColumn ==
    /\ pc = "done"
    /\ \E k \in 1..Len(MetadataFiles), merge_column \in MergeColumns :
          LET done == update_group_with_metadata_column(counts, MetadataFiles[k],
                                                        merge_column)
          IN  /\ ret' = done.rows
              /\ err' = done.err
              /\ call' = [NoCall EXCEPT !.op = "update_group_with_metadata_column",
                                        !.updates = call.updates,
                                        !.metadata_file = k,
                                        !.merge_column = merge_column]
    /\ UNCHANGED <<pc, args, attrs, gnps_network, sample_types, sample_metadata,
                   file_level_counts, counts,
                   flows, processes>>

\* The long tables passed to the functions of utils.py: the counts of the
\* object, and what filter_counts returns for a level and food types
TableFoodTypeLists ==
    { NoFoodTypes,
      [given |-> TRUE, list |-> <<"apple">>],
      [given |-> TRUE, list |-> <<"non_existent_food">>] }

TableInputs ==
    {counts} \cup {filter_counts(counts, food_types, level) :
                      food_types \in TableFoodTypeLists, level \in 0..MaxLevels}

LevelArgs == {NoLevel} \cup {Level(l) : l \in 0..MaxLevels}

\* a call of one of these functions: its arguments, and the function once
\* it was applied ("none" before)
TableCall(op, food_counts, level) ==
    [op |-> op, updates |-> 0, food_counts |-> food_counts, level |-> level]

FoodCountsToWide ==
    /\ pc = "done"
    /\ call.op = "none"
    /\ LET made == food_counts_to_wide(call.food_counts, call.level)
       IN  /\ ret' = made.wide
           /\ err' = made.err
    /\ call' = [call EXCEPT !.op = "food_counts_to_wide"]
    /\ UNCHANGED <<pc, args, attrs, gnps_network, sample_types, sample_metadata,
                   file_level_counts, counts, flows, processes>>

FoodCountsToWideOfUtils ==
    /\ pc = "done"
    /\ call.op = "none"
    /\ LET made == food_counts_to_wide_of_utils(call.food_counts, call.level)
       IN  /\ ret' = made.wide
           /\ err' = made.err
    /\ call' = [call EXCEPT !.op = "utils.food_counts_to_wide"]
    /\ UNCHANGED <<pc, args, attrs, gnps_network, sample_types, sample_metadata,
                   file_level_counts, counts, flows, processes>>

CalculateProportions ==
    /\ pc = "done"
    /\ call.op = "none"
    /\ LET made == calculate_proportions(call.food_counts, call.level)
       IN  /\ ret' = made.wide
           /\ err' = made.err
    /\ call' = [call EXCEPT !.op = "calculate_proportions"]
    /\ UNCHANGED <<pc, args, attrs, gnps_network, sample_types, sample_metadata,
                   file_level_counts, counts, flows, processes>>

---------------------------------------------------------------------------
(* Specifications *)

\* the construction of a FoodCounts object and the queries on it, and the
\* construction of a FoodFlows object
Next ==
    \/ FlowsReadNetwork
    \/ FlowsLoadSampleTypes
    \/ FlowsValidateGroups
    \/ GenerateFoodflows
    \/ ReadNetwork
    \/ LoadSampleTypes
    \/ ValidateSampleGroups
    \/ ValidateReferenceGroups
    \/ GetSampleMetadata
    \/ GetFilenameLevelFoodCounts
    \/ CreateFoodCountsAllLevels
    \/ FilterCounts

Spec == Init /\ [][Next]_vars

\* FoodCounts(...) run to its end on a network whose group lists are valid
\* and whose group filter selects some cluster: the attributes of the object
Constructed(a, network) ==
    LET types    == _load_sample_types(_load_food_metadata, a.sample_types)
        metadata == _get_sample_metadata(network, a.sample_groups)
        level0   == _get_filename_level_food_counts(network, a.sample_groups,
                        a.reference_groups, metadata, types)
    IN  [ sample_types      |-> types,
          sample_metadata   |-> metadata,
          file_level_counts |-> level0,
          made |-> create_food_counts_all_levels(level0, types, metadata, a.levels) ]

Completes(a, network) ==
    /\ a.gnps_network = ExistingPath
    /\ _validate_groups(network, a.sample_groups).type = "none"
    /\ _validate_groups(network, a.reference_groups).type = "none"
    /\ Constructed(a, network).made.err = "none"

\* the objects the group override is applied to: built with every sample
\* group list and level on the networks that hold every single-group cluster
\* and one cluster shared by several groups
OverrideNetworks ==
    {n \in Networks : /\ \A k \in 1..3 : \E i \in 1..Len(n) : n[i].cluster_index = k
                      /\ Len(n) <= 4}
OverrideArgs ==
    {a \in ArgsSet : a.sample_types = "all" /\ a.reference_groups = <<"G4">>}

InitConstructed ==
    /\ pc = "done"
    /\ args \in OverrideArgs
    /\ gnps_network \in {n \in OverrideNetworks : Completes(args, n)}
    /\ attrs = {"gnps_network", "food_metadata", "sample_types", "sample_groups",
                "reference_groups", "levels", "sample_metadata", "file_level_counts",
                "counts"}
    /\ sample_types = Constructed(args, gnps_network).sample_types
    /\ sample_metadata = Constructed(args, gnps_network).sample_metadata
    /\ file_level_counts = Constructed(args, gnps_network).file_level_counts
    /\ counts = Constructed(args, gnps_network).made.rows
    /\ flows = <<>>
    /\ processes = <<>>
    /\ err = NoError
    /\ call = NoCall
    /\ ret = <<>>

\* the group overrides applied to a constructed object
NextOverride ==
    \/ UpdateGroups
    \/ UpdateGroupWithMetadataColumn

SpecOverride == InitConstructed /\ [][NextOverride]_vars

\* the objects whose counts are pivoted: built for the sample group G1 and
\* the reference group G4 on the networks, in ascending order of cluster
\* index, that hold the single-group clusters of G1 and G4
TableNetworks ==
    {n \in Networks : /\ \A k \in {1, 3} : \E i \in 1..Len(n) : n[i].cluster_index = k
                      /\ n[1].cluster_index = 1}
TableArgs ==
    {a \in ArgsSet : /\ a.gnps_network = ExistingPath
                     /\ a.sample_types \in {"all", "simple"}
                     /\ a.sample_groups = <<"G1">>
                     /\ a.reference_groups = <<"G4">>}

InitTables ==
    /\ pc = "done"
    /\ args \in TableArgs
    /\ gnps_network \in {n \in TableNetworks : Completes(args, n)}
    /\ attrs = {"gnps_network", "food_metadata", "sample_types", "sample_groups",
                "reference_groups", "levels", "sample_metadata", "file_level_counts",
                "counts"}
    /\ sample_types = Constructed(args, gnps_network).sample_types
    /\ sample_metadata = Constructed(args, gnps_network).sample_metadata
    /\ file_level_counts = Constructed(args, gnps_network).file_level_counts
    /\ counts = Constructed(args, gnps_network).made.rows
    /\ flows = <<>>
    /\ processes = <<>>
    /\ err = NoError
    /\ call \in {TableCall("none", food_counts, level) :
                    food_counts \in TableInputs, level \in LevelArgs}
    /\ ret = <<>>

\* the functions of utils.py and utils/utils.py applied to a long table made
\* from the counts of a constructed object
NextTables ==
    \/ FoodCountsToWide
    \/ FoodCountsToWideOfUtils
    \/ CalculateProportions

SpecTables == InitTables /\ [][NextTables]_vars

---------------------------------------------------------------------------
(* Properties *)

Rows(table) == 1..Len(table)

\* the statements of __init__ that follow each validation, and the
\* exceptions raised by them
AfterSampleValidation ==
    \/ pc \in {"validate_reference_groups", "get_sample_metadata",
               "get_filename_level_food_counts", "create_food_counts_all_levels", "done"}
    \/ pc = "raised" /\ err.at \in {"validate_reference_groups",
                                    "create_food_counts_all_levels"}
AfterReferenceValidation ==
    \/ pc \in {"get_sample_metadata", "get_filename_level_food_counts",
               "create_food_counts_all_levels", "done"}
    \/ pc = "raised" /\ err.at = "create_food_counts_all_levels"
AfterFlowsValidation ==
    \/ pc \in {"FoodFlows.generate_foodflows", "FoodFlows.done"}
    \/ pc = "FoodFlows.raised" /\ err.at = "FoodFlows.generate_foodflows"

\* the labels of a list that are no group label of the network
AbsentLabels(list) ==
    {list[j] : j \in {j \in Rows(list) :
                        \A i \in Rows(gnps_network) : gnps_network[i].DefaultGroups # <<list[j]>>}}

Ancestor(leaf, level) ==
    sample_types[CHOOSE k \in Rows(sample_types) :
                    sample_types[k].sample_name = leaf].sample_type_group[level]

RECURSIVE SumRows(_, _)
SumRows(table, I) ==
    IF I = {} THEN 0
    ELSE LET i == CHOOSE x \in I : TRUE IN table[i].count + SumRows(table, I \ {i})

\* the level-0 counts of file s rolled up to category c of a level
RolledUp(s, c, level) ==
    SumRows(file_level_counts,
            {i \in Rows(file_level_counts) :
                /\ file_level_counts[i].filename = s
                /\ Ancestor(file_level_counts[i].food_type, level) = c})

CategoriesAt(level) ==
    {Ancestor(file_level_counts[i].food_type, level) : i \in Rows(file_level_counts)}

Level0Files == {file_level_counts[i].filename : i \in Rows(file_level_counts)}

\* the count that the water rule leaves to file s and category c
AboveWater(s, c, level) ==
    IF "water" \notin CategoriesAt(level) \/ RolledUp(s, c, level) > RolledUp(s, "water", level)
    THEN RolledUp(s, c, level)
    ELSE 0

\* the count of the row of counts for (s, c, level); 0 when there is no row
Emitted(s, c, level) ==
    LET at == {i \in Rows(counts) : /\ counts[i].filename = s
                                    /\ counts[i].food_type = c
                                    /\ counts[i].level = level}
    IN  IF at = {} THEN 0 ELSE counts[CHOOSE i \in at : TRUE].count

GroupFilter(r) ==
    LET excluded_groups ==
            {"G1", "G2", "G3", "G4", "G5", "G6"}
                \ (Range(args.sample_groups) \cup Range(args.reference_groups))
    IN  /\ \A j \in Rows(args.sample_groups) : r.G[args.sample_groups[j]] > 0
        /\ \E j \in Rows(args.reference_groups) : r.G[args.reference_groups[j]] > 0
        /\ \A g \in excluded_groups : r.G[g] = 0

SampleFiles == {sample_metadata[i].filename : i \in Rows(sample_metadata)}

LeafOf(f) ==
    LET at == {k \in Rows(sample_types) : sample_types[k].filename = f}
    IN  IF at = {} THEN NaN ELSE sample_types[CHOOSE k \in at : TRUE].sample_name

\* every file name of the network tables
Files == {"r1", "r1b", "r2", "r3", "s1", "s2", "u1"}

FilesOf(r) == {r.UniqueFileSources[j] : j \in Rows(r.UniqueFileSources)} \ {"|"}

\* the (cluster, reference file) pairs in which sample file s meets a
\* reference of leaf name n, over the clusters that pass the filter
CoOccurrences(s, n, passes(_)) ==
    LET samples == SampleFiles
    IN  IF s \notin samples \/ n = NaN THEN {}
        ELSE UNION {{<<i, f>> : f \in {g \in FilesOf(gnps_network[i]) :
                                           g \notin samples /\ LeafOf(g) = n}} :
                    i \in {k \in Rows(gnps_network) :
                              s \in FilesOf(gnps_network[k]) /\ passes(gnps_network[k])}}

Level0Count(s, n) ==
    LET at == {i \in Rows(file_level_counts) : /\ file_level_counts[i].filename = s
                                               /\ file_level_counts[i].food_type = n}
    IN  IF at = {} THEN 0 ELSE file_level_counts[CHOOSE i \in at : TRUE].count

LeafNames == {_load_food_metadata[k].sample_name : k \in Rows(_load_food_metadata)}

\* C3: the level-0 counts count the co-occurrences of exactly the network
\* rows in which every sample group column is > 0, some reference group
\* column is > 0 and every other group column is 0
C3_ClusterSelection ==
    "file_level_counts" \in attrs =>
        \A s \in Files, n \in LeafNames :
            Level0Count(s, n) = Cardinality(CoOccurrences(s, n, GroupFilter))

\* a counted cluster has a reference group column equal to 0, and a cluster
\* holding a sample and a mapped reference is excluded by a foreign group
C3_Witness ==
    /\ "file_level_counts" \in attrs
    /\ \E i \in Rows(gnps_network), s \in Files, n \in LeafNames :
          /\ GroupFilter(gnps_network[i])
          /\ \E j \in Rows(args.reference_groups) :
                gnps_network[i].G[args.reference_groups[j]] = 0
          /\ \E p \in CoOccurrences(s, n, GroupFilter) : p[1] = i
    /\ \E i \in Rows(gnps_network), s \in Files, n \in LeafNames :
          /\ ~GroupFilter(gnps_network[i])
          /\ \E p \in CoOccurrences(s, n, LAMBDA r : TRUE) : p[1] = i

\* the sum of the counts of file s in the rows of counts at a level
LevelSum(s, level) ==
    SumRows(counts, {i \in Rows(counts) : counts[i].filename = s /\ counts[i].level = level})

\* the sum of the counts of file s rolled up to a level, before the
\* comparison with water (the level-0 counts for level 0)
RolledUpSum(s, level) ==
    IF level = 0 THEN LevelSum(s, 0)
    ELSE SumRows([k \in 1..Len(SortedNames) |-> [count |-> RolledUp(s, SortedNames[k], level)]],
                 {k \in 1..Len(SortedNames) : SortedNames[k] \in CategoriesAt(level)})

\* C4: at every level 1..levels the counts of a file sum to no more than its
\* counts of the level below summed before the comparison with water
C4_LevelConsistent ==
    pc = "done" =>
        \A level \in 1..args.levels, s \in Level0Files :
            LevelSum(s, level) <= RolledUpSum(s, level - 1)

\* above level 1 the comparison with water removed counts of a file: the
\* level sums to less than the level below, and to more than 0
C4_Witness ==
    /\ pc = "done"
    /\ \E level \in 2..args.levels, s \in Level0Files :
          /\ LevelSum(s, level) < RolledUpSum(s, level - 1)
          /\ LevelSum(s, level) > 0

\* C5 as stated: every row of the level-0 table has a count > 0
C5_OnlyPositivePairs ==
    \A i \in Rows(file_level_counts) : file_level_counts[i].count > 0

CoOccur(s, n) == CoOccurrences(s, n, GroupFilter) # {}

\* C5 amended: the level-0 table has one row for every pair of a sample file
\* and a leaf name that each co-occur with something in a selected cluster;
\* the count of the row is > 0 when the two co-occur and 0 when they do not
C5_ZeroFilledPairs ==
    "file_level_counts" \in attrs =>
        LET pairs   == {p \in Files \X LeafNames : CoOccur(p[1], p[2])}
            samples == {p[1] : p \in pairs}
            leaves  == {p[2] : p \in pairs}
        IN  /\ \A i \in Rows(file_level_counts) :
                  LET r == file_level_counts[i] IN
                  /\ r.level = 0
                  /\ r.count >= 0
                  /\ r.count > 0 <=> <<r.filename, r.food_type>> \in pairs
                  /\ r.filename \in samples
                  /\ r.food_type \in leaves
            /\ \A s \in samples, n \in leaves :
                  Cardinality({i \in Rows(file_level_counts) :
                                  /\ file_level_counts[i].filename = s
                                  /\ file_level_counts[i].food_type = n}) = 1

\* the level-0 table holds a row with the count 0
C5_Witness ==
    /\ "file_level_counts" \in attrs
    /\ \E i \in Rows(file_level_counts) :
          /\ file_level_counts[i].count = 0
          /\ ~CoOccur(file_level_counts[i].filename, file_level_counts[i].food_type)

\* C6 as stated: a sample type tag other than simple, complex and all raises
\* when the ontology is loaded, and no ontology table is returned
C6_InvalidTagRaises ==
    (args.sample_types \notin {"simple", "complex", "all"}
        /\ pc \notin {"read_network", "load_sample_types",
                      "FoodFlows.read_network", "FoodFlows.load_sample_types"}) =>
            (pc \in {"raised", "FoodFlows.raised"} /\ "sample_types" \notin attrs)

\* C7 as stated: the construction ends with sample_metadata,
\* file_level_counts and counts set, or by a FileNotFoundError or ValueError
\* raised before any of them was derived; both group lists are validated
\* before the first of them is derived
C7_AllOrNothing ==
    /\ pc = "done" => {"sample_metadata", "file_level_counts", "counts"} \subseteq attrs
    /\ pc = "raised" =>
          /\ err.type \in {"FileNotFoundError", "ValueError"}
          /\ attrs \cap {"sample_metadata", "file_level_counts", "counts"} = {}
    /\ attrs \cap {"sample_metadata", "file_level_counts", "counts"} # {} =>
          /\ AbsentLabels(args.sample_groups) = {}
          /\ AbsentLabels(args.reference_groups) = {}

\* whether a row of counts is one filter_counts is asked for
Asked(r) ==
    /\ r.level = call.level
    /\ call.food_types.given =>
          \E j \in Rows(call.food_types.list) : call.food_types.list[j] = r.food_type

\* C8: filter_counts returns exactly the rows of counts at the level and,
\* when food types are given, of these food types, each once; it raises
\* nothing, also when no row is left
C8_FilterCounts ==
    call.op = "filter_counts" =>
        /\ err.type = "none"
        /\ \A j \in Rows(ret) : Asked(ret[j]) /\ \E i \in Rows(counts) : counts[i] = ret[j]
        /\ \A i \in Rows(counts) : Asked(counts[i]) => \E j \in Rows(ret) : ret[j] = counts[i]
        /\ Len(ret) = Cardinality({i \in Rows(counts) : Asked(counts[i])})
        /\ (call.food_types.given
              /\ \A i \in Rows(counts) :
                    counts[i].level = call.level =>
                        counts[i].food_type \notin Range(call.food_types.list))
            => ret = <<>>

\* food types absent from a level that has rows were asked for: the result
\* is empty and nothing was raised
C8_Witness ==
    /\ call.op = "filter_counts"
    /\ call.food_types.given
    /\ \E i \in Rows(counts) : counts[i].level = call.level
    /\ \E i \in Rows(counts) : counts[i].food_type \in Range(call.food_types.list)
    /\ ret = <<>>
    /\ err.type = "none"

\* the non-null values the merge column of a metadata file holds for a file
ValuesFor(k, merge_column, f) ==
    {MetadataFiles[k].rows[i][merge_column] :
        i \in {i \in Rows(MetadataFiles[k].rows) : MetadataFiles[k].rows[i].filename = f}}
        \ {NaN}

\* the rows of a metadata file that name a file
RowsFor(k, f) ==
    {i \in Rows(MetadataFiles[k].rows) : MetadataFiles[k].rows[i].filename = f}

\* the files of a table are each named by at most one row of a metadata file
OneRowPerFile(before, k) ==
    \A i \in Rows(before) : Cardinality(RowsFor(k, before[i].filename)) <= 1

\* the rows of a table after an override: a row of a file with a value in
\* the merge column carries that value, any other row the group it had
Overridden(before, after, k, merge_column) ==
    /\ Len(after) = Len(before)
    /\ \A i \in Rows(before) :
          /\ "group" \in DOMAIN after[i]
          /\ IF ValuesFor(k, merge_column, before[i].filename) # {}
             THEN after[i].group \in ValuesFor(k, merge_column, before[i].filename)
             ELSE after[i].group = before[i].group

\* what C9 states of update_groups, for metadata files that name each file of
\* the tables at most once
C9_UpdateGroupsStep ==
    (/\ call'.updates = call.updates + 1
     /\ err'.type = "none"
     /\ OneRowPerFile(counts, call'.metadata_file)
     /\ OneRowPerFile(sample_metadata, call'.metadata_file)) =>
        /\ Overridden(counts, counts', call'.metadata_file, call'.merge_column)
        /\ Overridden(sample_metadata, sample_metadata',
                      call'.metadata_file, call'.merge_column)

\* what C9 states of update_group_with_metadata_column, for metadata files
\* that name each file of the table at most once
C9_StandaloneStep ==
    (/\ call'.op = "update_group_with_metadata_column"
     /\ err'.type = "none"
     /\ OneRowPerFile(counts, call'.metadata_file)) =>
        Overridden(counts, ret', call'.metadata_file, call'.merge_column)

\* C9 as stated: after a successful update_groups, and in the table returned
\* by update_group_with_metadata_column, every row of a file with a non-null
\* value in the merge column carries that value as its group and every other
\* row the group it had; update_groups does so in counts and sample_metadata
C9_OverrideValues ==
    [][C9_UpdateGroupsStep /\ C9_StandaloneStep]_vars

\* the extensions update_groups reads, whatever their case
Readable(ext) == ext \in {".csv", ".tsv", ".txt", ".CSV", ".TSV", ".TXT"}

\* C10: update_groups given a file of another extension than .csv, .tsv and
\* .txt, or a table without the filename column or the merge column, raises
\* a ValueError that names the missing column when the file was read, and
\* whenever it raises it leaves counts and sample_metadata as they were
C10_OverrideErrors ==
    [][ call'.updates = call.updates + 1 =>
          LET file == MetadataFiles[call'.metadata_file]
              missing == {"filename", call'.merge_column} \ file.columns
          IN  /\ (~Readable(file.ext) \/ missing # {}) => err'.type = "ValueError"
              /\ (Readable(file.ext) /\ missing # {}) => missing \subseteq err'.names
              /\ err'.type # "none" =>
                    /\ err'.type = "ValueError"
                    /\ counts' = counts
                    /\ sample_metadata' = sample_metadata
      ]_vars

\* update_groups was refused a table without the filename column, and one of
\* its files has a value in the merge column of that table
C10_Witness ==
    /\ call.op = "update_groups"
    /\ err.type = "ValueError"
    /\ "filename" \notin MetadataFiles[call.metadata_file].columns
    /\ "filename" \in err.names
    /\ counts # <<>>

\* the level a call of food_counts_to_wide or calculate_proportions works at:
\* the level passed, or the level of the first row
LevelUsed ==
    IF call.level.given THEN call.level.value ELSE call.food_counts[1].level

\* the count of a file for a food type at a level of the table passed, and
\* the total of the file over the food types of the level
CountAt(f, c, level) ==
    SumRows(call.food_counts, {i \in Rows(call.food_counts) :
                                  /\ call.food_counts[i].filename = f
                                  /\ call.food_counts[i].food_type = c
                                  /\ call.food_counts[i].level = level})
TotalAt(f, level) ==
    SumRows(call.food_counts, {i \in Rows(call.food_counts) :
                                  /\ call.food_counts[i].filename = f
                                  /\ call.food_counts[i].level = level})

RoundTrip ==
    LET at_level == {i \in Rows(call.food_counts) : call.food_counts[i].level = LevelUsed}
    IN  /\ {ret.rows[k].filename : k \in Rows(ret.rows)}
              = {call.food_counts[i].filename : i \in at_level}
        /\ Range(ret.columns) = {call.food_counts[i].food_type : i \in at_level}
        /\ \A k \in Rows(ret.rows), j \in Rows(ret.columns) :
              LET cell == ret.rows[k].cell[ret.columns[j]]
                  of   == {i \in at_level :
                              /\ call.food_counts[i].filename = ret.rows[k].filename
                              /\ call.food_counts[i].food_type = ret.columns[j]}
              IN  /\ cell.den # 0
                  /\ \A i \in of : FracEq(cell, Frac(call.food_counts[i].count, 1))
                  /\ of = {} => cell.num = 0

\* C12 as stated: the wide table of food_counts_to_wide, of utils.py and of
\* utils/utils.py, melts back to the (filename, food_type, count) triples of
\* the level and zero-count triples for the absent pairs, with one column per
\* food type of the level and nothing from another level
C12_PivotRoundTrip ==
    (call.op \in {"food_counts_to_wide", "utils.food_counts_to_wide"}
        /\ err.type = "none") => RoundTrip

\* the levels of the table passed
LevelsPassed == Range(LevelsInData(call.food_counts))

\* the table returned has the files and the food types of one level of the
\* table passed
MadeFromLevel(level) ==
    LET at_level == {i \in Rows(call.food_counts) : call.food_counts[i].level = level}
    IN  /\ {ret.rows[k].filename : k \in Rows(ret.rows)}
              = {call.food_counts[i].filename : i \in at_level}
        /\ Range(ret.columns) = {call.food_counts[i].food_type : i \in at_level}

\* C13: food_counts_to_wide and calculate_proportions without a level use
\* the level of a table of one level and raise a ValueError for a table of
\* several levels; with a level they do not refuse a table of several levels
\* and use the rows of that level only
C13_LevelInference ==
    call.op \in {"food_counts_to_wide", "calculate_proportions"} =>
        /\ (~call.level.given /\ Cardinality(LevelsPassed) = 1) =>
              /\ err.type = "none"
              /\ MadeFromLevel(call.food_counts[1].level)
        /\ (~call.level.given /\ Cardinality(LevelsPassed) > 1) =>
              /\ err.type = "ValueError"
              /\ err.at = "multiple levels"
        /\ (call.level.given /\ Cardinality(LevelsPassed) > 1) =>
              /\ err.at # "multiple levels"
              /\ call.level.value \in LevelsPassed => err.type = "none"
              /\ err.type = "none" => MadeFromLevel(call.level.value)

\* a table of several levels was pivoted at the level passed, which is not
\* the level of its first row
C13_Witness ==
    /\ call.op = "food_counts_to_wide"
    /\ call.level.given
    /\ Cardinality(LevelsPassed) > 1
    /\ call.level.value # call.food_counts[1].level
    /\ err.type = "none"
    /\ ret.rows # <<>>

\* a level was passed and the table passed has no row at it
NoRowAtLevel ==
    /\ call.level.given
    /\ \A i \in Rows(call.food_counts) : call.food_counts[i].level # call.level.value

\* C14 as stated: food_counts_to_wide and calculate_proportions given a level
\* the table has no row at return an empty table and raise nothing
C14_EmptyLevelReturned ==
    (call.op \in {"food_counts_to_wide", "calculate_proportions"} /\ NoRowAtLevel) =>
        (err.type = "none" /\ ret.rows = <<>>)

\* C14 amended: food_counts_to_wide and calculate_proportions given a level
\* the table has no row at raise the ValueError "No data available for
\* level" and return nothing; given no level and a table without rows they
\* raise an IndexError when the level is inferred
C14_EmptyLevelRaises ==
    call.op \in {"food_counts_to_wide", "calculate_proportions"} =>
        /\ NoRowAtLevel =>
              /\ err.type = "ValueError"
              /\ err.at = "no data"
              /\ ret = NoWide
        /\ (~call.level.given /\ call.food_counts = <<>>) =>
              /\ err.type = "IndexError"
              /\ ret = NoWide
        /\ err.at = "no data" => NoRowAtLevel

\* calculate_proportions refused a table that has rows, none of them at the
\* level passed
C14_Witness ==
    /\ call.op = "calculate_proportions"
    /\ NoRowAtLevel
    /\ call.food_counts # <<>>
    /\ err.type = "ValueError"

\* the wide matrix of a level before the comparison with water
WideAt(level) == PivotLevel(MergeSampleTypes(file_level_counts, sample_types), level)

\* a suppressed matrix with the water column of the matrix it was made from
WithWaterOf(suppressed, wide) ==
    IF "water" \in wide.columns
    THEN [ filenames |-> suppressed.filenames,
           columns   |-> suppressed.columns \cup {"water"},
           cell      |-> [f \in suppressed.filenames, c \in suppressed.columns \cup {"water"} |->
                             IF c = "water" THEN wide.cell[f, "water"]
                             ELSE suppressed.cell[f, c]] ]
    ELSE suppressed

\* C15: the comparison with water applied to the matrix it has made of a
\* level, with the water counts of that level, gives the same matrix
C15_NoiseFloorIdempotent ==
    pc = "done" =>
        \A level \in 1..args.levels :
            LET wide == WideAt(level)
                once == CompareWithWater(wide)
            IN  CompareWithWater(WithWaterOf(once, wide)) = once

\* at a level with water counts above 0 the comparison has set a cell to 0
\* and kept a cell of a row whose water count is above 0
C15_Witness ==
    /\ pc = "done"
    /\ \E level \in 1..args.levels :
          LET wide == WideAt(level)
              once == CompareWithWater(wide)
          IN  /\ "water" \in wide.columns
              /\ \E f \in once.filenames, c \in once.columns :
                    wide.cell[f, c] > 0 /\ once.cell[f, c] = 0
              /\ \E f \in once.filenames, c \in once.columns :
                    once.cell[f, c] > 0 /\ wide.cell[f, "water"] > 0

\* C16: in the sample metadata derived at construction every filename
\* appears in exactly one row, whatever the network table and the sample
\* groups
C16_UniquePerFilename ==
    "sample_metadata" \in attrs =>
        \A f \in SampleFiles :
            Cardinality({i \in Rows(sample_metadata) : sample_metadata[i].filename = f}) = 1

\* whether network row r names exactly the one group g, a sample group
SingleGroupRow(r, g) ==
    /\ ~(\E j \in Rows(r.DefaultGroups) : r.DefaultGroups[j] = ",")
    /\ r.DefaultGroups = <<g>>
    /\ \E j \in Rows(args.sample_groups) : args.sample_groups[j] = g

GroupLabels == Groups \cup {"G8", "G9"}

\* C19: when _get_sample_metadata returns, the sample metadata holds the
\* pair (g, f) if and only if some network row names exactly the one group
\* g, g is a sample group and f is one of the files of the row; no pair
\* appears twice
C19_SampleMetadataDerivation ==
    pc = "get_filename_level_food_counts" =>
        /\ \A i \in Rows(sample_metadata) :
              /\ sample_metadata[i].group \in GroupLabels
              /\ sample_metadata[i].filename \in Files
        /\ \A g \in GroupLabels, f \in Files :
              (\E i \in Rows(sample_metadata) :
                  sample_metadata[i] = [group |-> g, filename |-> f])
              <=> (\E k \in Rows(gnps_network) :
                      SingleGroupRow(gnps_network[k], g) /\ f \in FilesOf(gnps_network[k]))
        /\ \A i, j \in Rows(sample_metadata) :
              sample_metadata[i] = sample_metadata[j] => i = j

\* two single-group rows of a sample group list the same file, a file of a
\* row shared by a sample group and another group is left out, and so is a
\* file of a single-group row of a group that is no sample group
C19_Witness ==
    /\ pc = "get_filename_level_food_counts"
    /\ \E k, l \in Rows(gnps_network), g \in GroupLabels :
          /\ k # l
          /\ SingleGroupRow(gnps_network[k], g) /\ SingleGroupRow(gnps_network[l], g)
          /\ FilesOf(gnps_network[k]) \cap FilesOf(gnps_network[l]) # {}
    /\ \E k \in Rows(gnps_network) :
          /\ \E j \in Rows(gnps_network[k].DefaultGroups) : gnps_network[k].DefaultGroups[j] = ","
          /\ \E j \in Rows(args.sample_groups) : gnps_network[k].G[args.sample_groups[j]] > 0
          /\ FilesOf(gnps_network[k]) \ SampleFiles # {}
    /\ \E k \in Rows(gnps_network) :
          /\ Len(gnps_network[k].DefaultGroups) = 1
          /\ FilesOf(gnps_network[k]) \cap SampleFiles = {}

\* C20: on a non-empty network with valid group lists of which no row
\* satisfies the level-0 group filter, the construction completes without
\* raising and counts is the empty table
C20_EmptyFilterCompletes ==
    (/\ pc \in {"done", "raised"}
     /\ Len(gnps_network) > 0
     /\ AbsentLabels(args.sample_groups) = {}
     /\ AbsentLabels(args.reference_groups) = {}
     /\ \A i \in Rows(gnps_network) : ~GroupFilter(gnps_network[i]))
        => (pc = "done" /\ err.type = "none" /\ counts = <<>>)

\* the reference files of leaf name n in network row r
ReferencesIn(r, n) == {f \in FilesOf(r) : f \notin SampleFiles /\ LeafOf(f) = n}

\* the selected clusters that hold sample file s
SelectedWith(s) ==
    {i \in Rows(gnps_network) : GroupFilter(gnps_network[i]) /\ s \in FilesOf(gnps_network[i])}

\* the number of selected clusters in which s meets a reference of leaf name n
ClusterCount(s, n) ==
    Cardinality({i \in SelectedWith(s) : ReferencesIn(gnps_network[i], n) # {}})

\* the number of reference files of leaf name n that s meets, cluster by cluster
ReferenceCount(s, n) ==
    Cardinality(UNION {{<<i, f>> : f \in ReferencesIn(gnps_network[i], n)} : i \in SelectedWith(s)})

\* C18 as stated, of the level-0 table when _get_filename_level_food_counts
\* returns it: the level-0 count of a sample file s and a leaf name n is
\* the number of selected clusters in which s co-occurs with a reference of
\* leaf name n (one unit per leaf name per cluster)
C18_CountPerCluster ==
    pc = "create_food_counts_all_levels" =>
        \A s \in SampleFiles, n \in LeafNames : Level0Count(s, n) = ClusterCount(s, n)

\* C18 as the code has it, of the level-0 table when
\* _get_filename_level_food_counts returns it: the level-0 count of a sample
\* file s and a leaf name n is one unit per reference file of leaf name n per
\* selected cluster holding s; it is at least the number of these clusters,
\* and equal to it when no such cluster holds two reference files of leaf
\* name n
C18_CountPerReferenceFile ==
    pc = "create_food_counts_all_levels" =>
        \A s \in SampleFiles, n \in LeafNames :
            /\ Level0Count(s, n) = ReferenceCount(s, n)
            /\ Level0Count(s, n) >= ClusterCount(s, n)
            /\ (\A i \in SelectedWith(s) : Cardinality(ReferencesIn(gnps_network[i], n)) <= 1)
                  => Level0Count(s, n) = ClusterCount(s, n)

\* a sample file meets two reference files of one leaf name in one selected
\* cluster, and its count is greater than the number of its clusters
C18_Witness ==
    /\ pc = "create_food_counts_all_levels"
    /\ \E s \in SampleFiles, n \in LeafNames :
          /\ \E i \in SelectedWith(s) : Cardinality(ReferencesIn(gnps_network[i], n)) = 2
          /\ ClusterCount(s, n) >= 1
          /\ Level0Count(s, n) > ClusterCount(s, n)

\* The per-filename computation, for one sample file s: the selected clusters
\* that hold s, and the reference files of the ontology found in them, one
\* entry per cluster and reference file
OriginalReferences(s) ==
    LET selected == {i \in Rows(gnps_network) :
                        s \in FilesOf(gnps_network[i]) /\ GroupFilter(gnps_network[i])}
        samples  == SampleFiles
    IN  UNION {{<<i, k>> : k \in {h \in Rows(sample_types) :
                                     /\ sample_types[h].filename \in FilesOf(gnps_network[i])
                                     /\ sample_types[h].filename \notin samples}} :
               i \in selected}

\* the reference foods counted by leaf name at level 0 and by category at a
\* level above
OriginalTally(references, c, level) ==
    Cardinality({p \in references :
        IF level = 0 THEN sample_types[p[2]].sample_name = c
                     ELSE sample_types[p[2]].sample_type_group[level] = c})

\* the count of the per-filename computation: the tally at level 0, and above
\* it the tally when it is greater than the tally of water, 0 otherwise
OriginalCount(references, c, level) ==
    IF level = 0 \/ OriginalTally(references, c, level) > OriginalTally(references, "water", level)
    THEN OriginalTally(references, c, level)
    ELSE 0

FoodTypes ==
    LeafNames \cup {_load_food_metadata[k].sample_type_group[l] :
                        k \in Rows(_load_food_metadata), l \in 1..NumOntologyLevels}

HasSignal(c, level) == \E s \in Level0Files : AboveWater(s, c, level) > 0

\* C21: at every level 1..levels every food type of the rows of counts has a
\* nonzero count for some file, and the rows of the level are those of the
\* files and of the categories that keep a count after the comparison with
\* water, whatever the other levels hold; a level without such a category
\* has no row, and create_food_counts_all_levels raises for no table that
\* has a level-0 row
C21_ZeroCategoriesDropped ==
    /\ (pc = "done" /\ call.op = "none") =>
          \A level \in 1..args.levels :
              LET at     == {i \in Rows(counts) : counts[i].level = level}
                  signal == {c \in CategoriesAt(level) \ {"water"} : HasSignal(c, level)}
              IN  /\ \A i \in at : \E j \in at : /\ counts[j].food_type = counts[i].food_type
                                                 /\ counts[j].count # 0
                  /\ {<<counts[i].filename, counts[i].food_type>> : i \in at}
                        = Level0Files \X signal
                  /\ Cardinality(at) = Cardinality(Level0Files \X signal)
                  /\ signal = {} => at = {}
    /\ (pc = "raised" /\ err.at = "create_food_counts_all_levels") => file_level_counts = <<>>

\* the comparison with water leaves no category to one level, which has no
\* row, while another level above 0 keeps its rows; the counts of the
\* emptied level were > 0 before the comparison
C21_Witness ==
    /\ pc = "done" /\ call.op = "none"
    /\ \E level, other \in 1..args.levels :
          /\ \A i \in Rows(counts) : counts[i].level # level
          /\ \E s \in Level0Files, c \in CategoriesAt(level) \ {"water"} :
                RolledUp(s, c, level) > 0
          /\ \E i \in Rows(counts) : counts[i].level = other /\ counts[i].count > 0

\* the rows of the sample metadata that name file f
MetadataRowsOf(f) == {i \in Rows(sample_metadata) : sample_metadata[i].filename = f}

\* whether the sample metadata lists file f under two different groups
Ambiguous(f) ==
    \E i, j \in MetadataRowsOf(f) : sample_metadata[i].group # sample_metadata[j].group

\* C22: a file listed by the sample metadata under two different groups
\* carries, on each of its rows of counts at every level, the group of its
\* last row in the sample metadata; the construction raises no error for it
C22_LastGroupWins ==
    /\ (pc = "done" /\ call.op = "none") =>
          \A i \in Rows(counts) :
              Ambiguous(counts[i].filename) =>
                  LET at   == MetadataRowsOf(counts[i].filename)
                      last == CHOOSE k \in at : \A j \in at : j <= k
                  IN  counts[i].group = sample_metadata[last].group
    /\ (pc = "raised" /\ err.at = "create_food_counts_all_levels") =>
          (file_level_counts = <<>> /\ err.type = "KeyError")

\* a file listed under two groups has rows in counts at level 0 and at a
\* level above
C22_Witness ==
    /\ pc = "done" /\ call.op = "none"
    /\ \E i, j \in Rows(counts) :
          /\ Ambiguous(counts[i].filename)
          /\ counts[j].filename = counts[i].filename
          /\ counts[i].level = 0 /\ counts[j].level > 0
          /\ counts[i].count > 0 /\ counts[j].count > 0

\* the group filter of the food flows as the claim states it
FlowFilter(r) ==
    /\ \A j \in Rows(args.groups_included) : r.G[args.groups_included[j]] > 0
    /\ \A g \in {"G1", "G2", "G3", "G4", "G5", "G6"} \ Range(args.groups_included) : r.G[g] = 0

\* the chain of categories the ontology gives file f
ChainOf(f) ==
    sample_types[CHOOSE k \in Rows(sample_types) : sample_types[k].filename = f].sample_type_group

\* the exploded filename occurrences (network row, position in the row's
\* file list) of the rows that pass the filter and of a file the ontology
\* knows
Occurrences ==
    LET known == {sample_types[k].filename : k \in Rows(sample_types)}
    IN  UNION {{<<i, j>> : j \in {h \in Rows(gnps_network[i].UniqueFileSources) :
                                    gnps_network[i].UniqueFileSources[h] \in known}} :
               i \in {k \in Rows(gnps_network) : FlowFilter(gnps_network[k])}}

CategoryOf(o, level) == ChainOf(gnps_network[o[1]].UniqueFileSources[o[2]])[level]

\* the single water count, and the occurrences of a category of the finest
\* level
WaterCount == Cardinality({o \in Occurrences : CategoryOf(o, 1) = "water"})
FinestCount(c) ==
    Cardinality({o \in Occurrences : CategoryOf(o, args.max_hierarchy_level) = c})

\* the occurrences kept by the noise floor
Retained ==
    LET occurrences == Occurrences
        water == Cardinality({o \in occurrences : CategoryOf(o, 1) = "water"})
        finest(c) ==
            Cardinality({o \in occurrences : CategoryOf(o, args.max_hierarchy_level) = c})
    IN  {o \in occurrences : finest(CategoryOf(o, args.max_hierarchy_level)) > water}

RECURSIVE SumValues(_, _)
SumValues(table, I) ==
    IF I = {} THEN 0
    ELSE LET i == CHOOSE x \in I : TRUE IN table[i].value + SumValues(table, I \ {i})

\* the value the flows give to the edges into node id
Incoming(id) == SumValues(flows, {i \in Rows(flows) : flows[i].target = id})
Outgoing(id) == SumValues(flows, {i \in Rows(flows) : flows[i].source = id})

PairTotal(i) ==
    SumValues(flows, {k \in Rows(flows) : flows[k].source[2] = i /\ flows[k].target[2] = i + 1})

\* C24: the filenames of the food flows are those of the network rows in
\* which every groups_included column is > 0 and every other group column is
\* 0, and of no other row: the edges between two adjacent levels carry one
\* unit per retained occurrence of these rows, and none when no row passes
C24_FlowClusterSelection ==
    pc = "FoodFlows.done" =>
        /\ \A i \in 1..(args.max_hierarchy_level - 1) : PairTotal(i) = Cardinality(Retained)
        /\ (\A k \in Rows(gnps_network) : ~FlowFilter(gnps_network[k])) => flows = <<>>

\* a row with a file of the ontology has one of the included group columns
\* > 0 and another equal to 0 and brings nothing, a second such row has a
\* column of a group that is not included > 0 and brings nothing, and a row
\* that passes brings its files
C24_Witness ==
    /\ pc = "FoodFlows.done"
    /\ Len(args.groups_included) > 1
    /\ \E k \in Rows(gnps_network) :
          /\ \E j \in Rows(args.groups_included) : gnps_network[k].G[args.groups_included[j]] > 0
          /\ \E j \in Rows(args.groups_included) : gnps_network[k].G[args.groups_included[j]] = 0
          /\ \E f \in FilesOf(gnps_network[k]), h \in Rows(sample_types) :
                sample_types[h].filename = f
    /\ \E k \in Rows(gnps_network) :
          /\ \A j \in Rows(args.groups_included) : gnps_network[k].G[args.groups_included[j]] > 0
          /\ ~FlowFilter(gnps_network[k])
          /\ \E f \in FilesOf(gnps_network[k]), h \in Rows(sample_types) :
                sample_types[h].filename = f
    /\ Retained # {}
    /\ PairTotal(1) = Cardinality(Retained)

\* those of the occurrences in kept, with the chains their files have,
\* whose chain has a at level i and b at level i + 1
Transitions(kept, chains, a, b, i) ==
    Cardinality({o \in kept : chains[o][i] = a /\ chains[o][i + 1] = b})

\* the edges of the flows from a at level i to b at level i + 1
EdgesOf(a, b, i) ==
    {k \in Rows(flows) : flows[k].source = <<a, i>> /\ flows[k].target = <<b, i + 1>>}

\* C25: for every pair of adjacent levels i, i + 1 below max_hierarchy_level
\* and every pair of categories a, b the flows hold one edge from a_i to
\* b_(i+1), valued by the number of retained filename occurrences whose chain
\* has a at level i and b at level i + 1, when this number is > 0, and no such
\* edge otherwise; every edge is one of these, and a file without ontology
\* entry is in no occurrence
C25_FlowEdges ==
    pc = "FoodFlows.done" =>
        /\ LET retained == Retained
               chains == [o \in retained |->
                             ChainOf(gnps_network[o[1]].UniqueFileSources[o[2]])]
               occurring(i) == {<<chains[o][i], chains[o][i + 1]>> : o \in retained}
           IN  \A i \in 1..(args.max_hierarchy_level - 1) :
                   /\ \A p \in occurring(i) :
                         /\ p[1] \in FoodTypes /\ p[2] \in FoodTypes
                         /\ Cardinality(EdgesOf(p[1], p[2], i)) = 1
                         /\ \A k \in EdgesOf(p[1], p[2], i) :
                               flows[k].value = Transitions(retained, chains, p[1], p[2], i)
                   /\ \A k \in Rows(flows) :
                         flows[k].source[2] = i =>
                             <<flows[k].source[1], flows[k].target[1]>> \in occurring(i)
        /\ \A k \in Rows(flows) :
              /\ flows[k].source[2] \in 1..(args.max_hierarchy_level - 1)
              /\ flows[k].target[2] = flows[k].source[2] + 1
              /\ flows[k].source[1] \in FoodTypes /\ flows[k].target[1] \in FoodTypes
              /\ flows[k].value > 0
        /\ \A o \in Retained :
              \E h \in Rows(sample_types) :
                  sample_types[h].filename = gnps_network[o[1]].UniqueFileSources[o[2]]

\* an edge is valued 2 or more, two edges leave one node, a category name
\* is on edges of two pairs of levels, and a row that passes the filter
\* lists a file without ontology entry
C25_Witness ==
    /\ pc = "FoodFlows.done"
    /\ \E k \in Rows(flows) : flows[k].value >= 2
    /\ \E k, l \in Rows(flows) : k # l /\ flows[k].source = flows[l].source
    /\ \E k, l \in Rows(flows) :
          flows[k].target[1] = flows[l].target[1] /\ flows[k].target[2] # flows[l].target[2]
    /\ \E k \in Rows(gnps_network) :
          /\ FlowFilter(gnps_network[k])
          /\ \E f \in FilesOf(gnps_network[k]) :
                \A h \in Rows(sample_types) : sample_types[h].filename # f

\* the identifiers on the edges of the flows
EdgeIds == {flows[k].source : k \in Rows(flows)} \cup {flows[k].target : k \in Rows(flows)}

\* C26: the processes hold every identifier that is a source or a target of
\* an edge exactly once and no other identifier, each with the level its
\* identifier ends with
C26_FlowNodes ==
    pc = "FoodFlows.done" =>
        /\ {processes[k].id : k \in Rows(processes)} = EdgeIds
        /\ \A k, l \in Rows(processes) : processes[k].id = processes[l].id => k = l
        /\ \A k \in Rows(processes) : processes[k].level = processes[k].id[2]

\* an identifier is the target of one edge and the source of another, and a
\* category name is on nodes of two levels
C26_Witness ==
    /\ pc = "FoodFlows.done"
    /\ \E k, l \in Rows(flows) : flows[k].target = flows[l].source
    /\ \E k, l \in Rows(processes) :
          /\ processes[k].id[1] = processes[l].id[1]
          /\ processes[k].level # processes[l].level

\* C30: every node of the flows at a level strictly between 1 and
\* max_hierarchy_level receives on its incoming edges the value it sends on
\* its outgoing edges, and the edges of every pair of adjacent levels sum to
\* the same value
C30_FlowConservation ==
    pc = "FoodFlows.done" =>
        /\ \A id \in EdgeIds :
              (1 < id[2] /\ id[2] < args.max_hierarchy_level) => Incoming(id) = Outgoing(id)
        /\ \A i, j \in 1..(args.max_hierarchy_level - 1) : PairTotal(i) = PairTotal(j)

\* two nodes of an intermediate level each receive and send a value > 0, one
\* of them more than the other
C30_Witness ==
    /\ pc = "FoodFlows.done"
    /\ \E id, other \in EdgeIds :
          /\ 1 < id[2] /\ id[2] < args.max_hierarchy_level
          /\ other[2] = id[2]
          /\ Incoming(id) > Incoming(other)
          /\ Incoming(other) > 0
          /\ Outgoing(id) > 0

\* the filenames of the ontology
OntologyFiles == {_load_food_metadata[k].filename : k \in Rows(_load_food_metadata)}

C27_CountsFollowMetadata ==
    pc = "done" =>
        /\ \A i \in Rows(counts) :
              LET at == MetadataRowsOf(counts[i].filename)
              IN  /\ at # {}
                  /\ counts[i].group = sample_metadata[CHOOSE k \in at : \A j \in at : j <= k].group
        /\ LET again == create_food_counts_all_levels(file_level_counts, sample_types,
                                                      sample_metadata, args.levels)
           IN  again.err = "none" /\ again.rows = counts

\* two update_groups calls succeeded one after the other, and counts holds a
\* row with a group set by an override and a row with a group the network
\* gave
C27_Witness ==
    /\ call.op = "update_groups" /\ call.updates = 2 /\ err.type = "none"
    /\ \E i, j \in Rows(counts) :
          /\ counts[i].group \in {"A", "B", "C"}
          /\ counts[j].group \in {"G1", "G2"}
          /\ sample_metadata # Constructed(args, gnps_network).sample_metadata

\* the rows of a table without their group
WithoutGroup(table) ==
    [i \in Rows(table) |-> [c \in DOMAIN table[i] \ {"group"} |-> table[i][c]]]

\* C28: a successful update_groups call leaves every row of counts and of
\* sample_metadata in its place with the filename, food type, level and count
\* it had, and adds and removes no row and no column, whatever the rows of
\* the metadata file; nothing else of the object changes
C28_OverrideFrame ==
    [][ (call'.updates = call.updates + 1 /\ err'.type = "none") =>
          /\ WithoutGroup(counts') = WithoutGroup(counts)
          /\ WithoutGroup(sample_metadata') = WithoutGroup(sample_metadata)
          /\ \A i \in Rows(counts') : "group" \in DOMAIN counts'[i]
          /\ \A i \in Rows(sample_metadata') : "group" \in DOMAIN sample_metadata'[i]
          /\ UNCHANGED <<gnps_network, sample_types, file_level_counts, args, attrs>>
      ]_vars

\* update_groups succeeded with a metadata file that names a file of counts
\* twice and a file the object does not know, and set a group
C28_Witness ==
    /\ call.op = "update_groups" /\ err.type = "none"
    /\ LET rows == MetadataFiles[call.metadata_file].rows
       IN  /\ \E k, l \in Rows(rows) :
                 /\ k # l /\ rows[k].filename = rows[l].filename
                 /\ \E i \in Rows(counts) : counts[i].filename = rows[k].filename
           /\ \E k \in Rows(rows) :
                 /\ \A i \in Rows(counts) : counts[i].filename # rows[k].filename
                 /\ \A i \in Rows(sample_metadata) :
                       sample_metadata[i].filename # rows[k].filename
    /\ \E i \in Rows(counts) : counts[i].group \in {"A", "B", "C"}

=============================================================================
